---- MODULE Spec2Model ----
(***************************************************************************)
(* Halftone animation engine of frog-london/Tara-Voice.                    *)
(*                                                                         *)
(* Source: src/src/components/HalftoneCanvas.tsx (the four animation       *)
(* managers, the colour transition in drawHalftone) and                    *)
(* src/src/components/SimpleControlPanel.tsx (the callers).                *)
(*                                                                         *)
(* Numbers.  The code computes in IEEE doubles; the model computes on      *)
(* integer grids:                                                          *)
(*   - clocks (Date.now(), performance.now()) in ticks of TickMs ms;       *)
(*   - audio levels, wave intensities and ripple amplitudes in units of    *)
(*     1/Scale; a product with a decay rate is rounded down to the grid.   *)
(*     Scale is a multiple of 1000*35*499 so that the thresholds (0.001,   *)
(*     0.002), the floors (0.01, 1), the bass amplitude factor (35) and    *)
(*     one bass decay step (0.998 = 499/500) from 500/499 of a floor are   *)
(*     all exact;                                                          *)
(*   - radii of frequency emissions in tenths of a pixel (speeds 1.5 and   *)
(*     3.5 px per update are exact).                                       *)
(***************************************************************************)
EXTENDS Integers, Sequences, FiniteSets, TLC

VARIABLES
    \* --- clocks
    dateNow,            \* Date.now(), in ticks
    \* --- drawHalftone's audio branch
    audioAnimationMode, \* params.audioAnimationMode
    \* --- WaveManager
    waves,              \* WaveManager.waves (array, insertion order)
    waveLastSpawn,      \* lastBassSpawn / lastMidSpawn / lastTrebleSpawn
    waveCenter,         \* <<centerX, centerY>>
    waveMaxRadius,      \* WaveManager.maxRadius, px
    \* --- RippleManager
    ripples,            \* RippleManager.ripples
    rippleLastSpawn,
    rippleCenter,
    rippleMaxRadius,
    \* --- observation of the last update call of a RippleManager
    calls,              \* log of <<Date.now(), bass ripples spawned>>, one per scripted call
    \* --- performance.now(), in ticks
    perfNow,
    \* --- LoopPulseManager
    loopPulse,          \* the fields startTime, loopDuration, totalCycles, currentCycle, isCompleted
    pulseReturned,      \* what the last per-point query returned
    pulseSince,         \* history: which of complete() and a changing updateParams() were
                        \* called since construction / the last reset()
    \* --- LoopRippleManager
    loopRipple,         \* the fields, the pool `ripples` among them
    loopRippleChangedAt, \* history: performance.now() of the last changing updateParams(), or -1
    \* --- colour of the dots (SimpleControlPanel state, HalftoneCanvas state and closure)
    dotColor,           \* params.dotColor
    colorTransition,    \* the React state colorTransition
    drawTransition,     \* the colorTransition captured by the current drawHalftone closure
    currentColor,       \* the colour the last frame assigned to fillStyle
    flow,               \* which timer of handleMessageSent is pending
    flowStart,          \* performance.now() of the last handleMessageSent
    resting,            \* history: target of the transition a frame completed, if no
                        \* transition was started since
    \* --- generateSVG(optimize = true)
    svg,                \* the locals of one optimized export, the promise and isOptimizing
    \* --- the dot grid of one frame (drawHalftone, generateSVG, renderAtTime)
    field,              \* the parameters of the frame, its renderer and its animation inputs
    cursor,             \* <<x index, y index>> of the grid point the nested loops are at
    dot,                \* the grid point processed last and what was emitted for it
    centreDot,          \* history: the dot emitted at the exact centre of the field, if any
    \* --- live recording (startRecording, animate, stopRecording, the MediaRecorder)
    recording,          \* the refs of the recording, the recorder and the counts observed
    \* --- the mask image (loadSvgMask and the effect that calls it)
    mask,               \* params.maskEnabled / maskSvgPath, maskImageRef, maskLoadError, loads in flight
    \* --- the conversation (SimpleControlPanel: wake word, listening, thinking, responding)
    conversation,       \* animationState, the recognizers and the pending timers
    \* --- offline export (startOfflineExport)
    offline,            \* the frame loop, the encoder's input and the recorder
    \* --- the draw of a captured frame (the wrapper that measures drawHalftone, animate)
    capture,            \* lastDrawDurationRef and what the last call of animate did
    \* --- the browser's event loop while an optimized export runs
    eventLoop,          \* is a task of the export on the stack, is its timer pending
    \* --- one grid point asked of both ripple renderers (getRippleDisplacement, renderAtTime)
    ringQuery,          \* the point, the time, the parameters, and the two answers
    \* --- the chat client (useSocket)
    socket,             \* the message queue, the connection flags and what was handed out
    \* --- the chat server (server/index.js)
    server              \* the timers of the requests and what was emitted on each socket

freqVars == <<dateNow, audioAnimationMode, waves, waveLastSpawn, waveCenter, waveMaxRadius,
              ripples, rippleLastSpawn, rippleCenter, rippleMaxRadius>>

loopVars == <<perfNow, loopPulse, pulseReturned, pulseSince, loopRipple, loopRippleChangedAt>>

colorVars == <<dotColor, colorTransition, drawTransition, currentColor, flow, flowStart, resting>>

dotVars == <<field, cursor, dot, centreDot>>

sideVars == <<ringQuery, socket, server>>

appVars == <<mask, conversation, offline, capture, eventLoop, sideVars>>

canvasVars == <<svg, dotVars, recording, appVars>>

vars == <<freqVars, calls, loopVars, colorVars, canvasVars>>

(***************************************************************************)
(* Bounds of the model                                                     *)
(***************************************************************************)
MaxDateNow == 10        \* the Date.now() clock stops advancing here (ticks)
EpochTicks == 9         \* a Date.now() later than every cooldown after the epoch (ticks)
MaxCalls == 3           \* scripted update calls in the scenario specification
MaxScenarioNow == 18    \* the Date.now() clock of the scenario stops advancing here (ticks)
MaxPulseNow == 41       \* performance.now() stops advancing here in the loop-pulse specification
MaxLoopRippleNow == 14  \* performance.now() stops advancing here in the loop-ripple specification
MaxTickDelta == 2       \* longest gap between two LoopRippleManager.update calls (ticks)
MaxColorNow == 104      \* performance.now() stops advancing here in the colour specification
MaxMessageAt == 2       \* latest performance.now() of a handleMessageSent (ticks)
MaxCircleRadius == 3    \* largest radius of an exported circle
MaxFailures == 2        \* failing calls (progress callback, martinez.union) in one export
MaxRecordings == 2      \* calls of startRecording
MaxStopCalls == 2       \* calls of stopRecording from outside, per recording
MaxFrames == 9          \* the frame counter of a recording is not followed beyond this
MaxFrameGap == 3        \* longest gap between two update calls of a loop-ripple run (ticks)
MaxLoopRunNow == 24     \* performance.now() stops advancing here in a loop-ripple run
MaxMaskRequests == 4    \* runs of the mask effect, the one at mount included
MaxTimers == 4          \* pending timers of the conversation
MaxQuestionRecognizers == 2 \* question recognizers running at once
MaxDeafMs == 1000       \* longest delay of a wake-word restart the code sets (ms)
EventGridMs == 500      \* the recognizers' events arrive at multiples of this (ms)
MaxRecognizerErrors == 1 \* error events of the recognizers in one run
MaxOtherCallbacks == 2  \* callbacks of other sources run during one export

(***************************************************************************)
(* Units and program constants                                             *)
(***************************************************************************)
TickMs == 50
THINKING_ANIMATION_DURATION == 4500
ROTATION_DURATION == 4000
Scale == 1000 * 35 * 499

Bands == {"bass", "mid", "treble"}

Min(a, b) == IF a < b THEN a ELSE b

\* floor(x * num / den) for x >= 0 without leaving 32 bits
MulDiv(x, num, den) == (x \div den) * num + ((x % den) * num) \div den

(***************************************************************************)
(* WaveManager                                                             *)
(***************************************************************************)
WaveThreshold == Scale \div 1000        \* bassThreshold = midThreshold = trebleThreshold = 0.001
WaveFloor == Scale \div 100             \* wave.intensity > 0.01

WaveSpeed(f) == IF f = "bass" THEN 10 ELSE IF f = "mid" THEN 30 ELSE 60
\* maxRadius factor 1.2 / 0.8 / 0.4, as tenths of a pixel per pixel of manager radius
WaveReach(f) == IF f = "bass" THEN 12 ELSE IF f = "mid" THEN 8 ELSE 4
\* decayRate 0.998 / 0.995 / 0.99, per mille
WaveDecay(f) == IF f = "bass" THEN 998 ELSE IF f = "mid" THEN 995 ELSE 990
\* mutant: the cooldowns of the comment above the spawn checks (500 / 300 / 100 ms)
WaveCooldownOfComment(f) == IF f = "bass" THEN 500 ELSE IF f = "mid" THEN 300 ELSE 100

WaveCooldown(f) == IF f = "bass" THEN 200 ELSE IF f = "mid" THEN 100 ELSE 50

\* spawnWave(frequency, intensity): the record pushed on this.waves.  The id is
\* `${frequency}-${Date.now()}-${Math.random()}`, kept here as <<frequency, Date.now()>>.
NewWave(f, intensity) ==
    [ id            |-> <<f, dateNow>>,
      birthTime     |-> dateNow,
      currentRadius |-> 0,
      speed         |-> WaveSpeed(f),
      intensity     |-> Min(intensity, Scale),
      frequency     |-> f,
      maxRadius     |-> waveMaxRadius * WaveReach(f),
      decayRate     |-> WaveDecay(f) ]

\* the body of the filter callback: the two assignments ...
WaveAdvance(w) ==
    [w EXCEPT !.currentRadius = @ + w.speed,
              !.intensity = MulDiv(@, w.decayRate, 1000)]

\* mutant: >= in place of > on the intensity
WaveKeepAtFloor(w) == w.currentRadius < w.maxRadius /\ w.intensity >= WaveFloor

\* ... and its return value
WaveKeep(w) == w.currentRadius < w.maxRadius /\ w.intensity > WaveFloor

WaveFilter(pool) == SelectSeq([i \in 1..Len(pool) |-> WaveAdvance(pool[i])], WaveKeep)

\* adjusted level of a band
Adjusted(audio, sensitivity, influence, f) == audio[f] * influence[f] * sensitivity

WaveSpawns(audio, sensitivity, influence, f) ==
    /\ Adjusted(audio, sensitivity, influence, f) > WaveThreshold
    /\ (dateNow - waveLastSpawn[f]) * TickMs > WaveCooldown(f)

\* WaveManager.update(audioData, sensitivity, bassInfluence, midInfluence, trebleInfluence)
WaveManagerUpdate(audio, sensitivity, influence) ==
    LET kept == WaveFilter(waves)
        push(pool, f) ==
            IF WaveSpawns(audio, sensitivity, influence, f)
            THEN Append(pool, NewWave(f, Adjusted(audio, sensitivity, influence, f)))
            ELSE pool
    IN  /\ waveLastSpawn' = [f \in Bands |->
               IF WaveSpawns(audio, sensitivity, influence, f) THEN dateNow ELSE waveLastSpawn[f]]
        /\ waves' = push(push(push(kept, "bass"), "mid"), "treble")
        /\ UNCHANGED <<waveCenter, waveMaxRadius>>

\* mutant of WaveManagerUpdateCenter: the waves in the pool take the new reach
WaveManagerUpdateCenterRescaling(center, maxRadius) ==
    /\ waveCenter' = center
    /\ waveMaxRadius' = maxRadius
    /\ waves' = [i \in 1..Len(waves) |->
                    [waves[i] EXCEPT !.maxRadius = maxRadius * WaveReach(waves[i].frequency)]]
    /\ UNCHANGED waveLastSpawn

\* WaveManager.updateCenter(centerX, centerY, maxRadius)
WaveManagerUpdateCenter(center, maxRadius) ==
    /\ waveCenter' = center
    /\ waveMaxRadius' = maxRadius
    /\ UNCHANGED <<waves, waveLastSpawn>>

(***************************************************************************)
(* RippleManager                                                           *)
(***************************************************************************)
RippleThreshold == (Scale \div 1000) * 2    \* 0.002
RippleFloor == Scale                        \* ripple.amplitude > 1

\* speed 1.5 / 3.5 / 8 px per update, in tenths
RippleSpeed(f) == IF f = "bass" THEN 15 ELSE IF f = "mid" THEN 35 ELSE 80
\* amplitude = intensity * 35 / 18 / 8
RippleGain(f) == IF f = "bass" THEN 35 ELSE IF f = "mid" THEN 18 ELSE 8
\* maxRadius factor 1.8 / 1.2 / 0.7
RippleReach(f) == IF f = "bass" THEN 18 ELSE IF f = "mid" THEN 12 ELSE 7
\* decayRate 0.998 / 0.994 / 0.985, per mille
RippleDecay(f) == IF f = "bass" THEN 998 ELSE IF f = "mid" THEN 994 ELSE 985
RippleCooldown(f) == IF f = "bass" THEN 400 ELSE IF f = "mid" THEN 200 ELSE 50

\* spawnRipple(frequency, intensity)
NewRipple(f, intensity) ==
    [ id            |-> <<f, dateNow>>,
      birthTime     |-> dateNow,
      currentRadius |-> 0,
      speed         |-> RippleSpeed(f),
      amplitude     |-> intensity * RippleGain(f),
      frequency     |-> f,
      maxRadius     |-> rippleMaxRadius * RippleReach(f),
      decayRate     |-> RippleDecay(f) ]

\* mutant: the amplitude is divided by the decay rate
RippleAdvanceGrowing(r) ==
    [r EXCEPT !.currentRadius = @ + r.speed,
              !.amplitude = MulDiv(@, 1000, r.decayRate)]

RippleAdvance(r) ==
    [r EXCEPT !.currentRadius = @ + r.speed,
              !.amplitude = MulDiv(@, r.decayRate, 1000)]

RippleKeep(r) == r.currentRadius < r.maxRadius /\ r.amplitude > RippleFloor

RippleFilter(pool) == SelectSeq([i \in 1..Len(pool) |-> RippleAdvance(pool[i])], RippleKeep)

RippleSpawns(audio, sensitivity, influence, f) ==
    /\ Adjusted(audio, sensitivity, influence, f) > RippleThreshold
    /\ (dateNow - rippleLastSpawn[f]) * TickMs > RippleCooldown(f)

\* RippleManager.update(audioData, sensitivity, bassInfluence, midInfluence, trebleInfluence)
RippleManagerUpdate(audio, sensitivity, influence) ==
    LET kept == RippleFilter(ripples)
        push(pool, f) ==
            IF RippleSpawns(audio, sensitivity, influence, f)
            THEN Append(pool, NewRipple(f, Adjusted(audio, sensitivity, influence, f)))
            ELSE pool
    IN  /\ rippleLastSpawn' = [f \in Bands |->
               IF RippleSpawns(audio, sensitivity, influence, f) THEN dateNow ELSE rippleLastSpawn[f]]
        /\ ripples' = push(push(push(kept, "bass"), "mid"), "treble")
        /\ UNCHANGED <<rippleCenter, rippleMaxRadius>>

\* RippleManager.updateCenter(centerX, centerY, maxRadius)
RippleManagerUpdateCenter(center, maxRadius) ==
    /\ rippleCenter' = center
    /\ rippleMaxRadius' = maxRadius
    /\ UNCHANGED <<ripples, rippleLastSpawn>>

(***************************************************************************)
(* Inputs of the frequency-reactive managers                               *)
(***************************************************************************)
WeakLevel == Scale \div 200                         \* 0.005: over both thresholds, under both floors
WaveEdgeLevel == ((Scale \div 100) \div 499) * 500  \* one bass decay step above the wave floor
RippleEdgeLevel == ((Scale \div 35) \div 499) * 500 \* amplitude one bass decay step above the ripple floor
LoudLevel == Scale \div 2                           \* 0.5

Audio(b, m, t) == [bass |-> b, mid |-> m, treble |-> t]

Input(a, s, i) == [audio |-> a, sensitivity |-> s, influence |-> i]

\* One argument list of update(): audioData.{bassLevel, midLevel, trebleLevel} (each in
\* [0, 1]), params.audioSensitivity and params.{bass,mid,treble}Influence
UpdateInputs ==
    { Input(Audio(0, 0, 0), 1, Audio(1, 1, 1)),
      Input(Audio(WeakLevel, 0, 0), 1, Audio(1, 1, 1)),
      Input(Audio(WaveEdgeLevel, 0, 0), 1, Audio(1, 1, 1)),
      Input(Audio(RippleEdgeLevel, 0, 0), 1, Audio(1, 1, 1)),
      Input(Audio(LoudLevel, 0, 0), 1, Audio(1, 1, 1)),
      Input(Audio(LoudLevel, LoudLevel, LoudLevel), 1, Audio(1, 1, 1)),
      Input(Audio(LoudLevel, LoudLevel, LoudLevel), 1, Audio(0, 1, 1)),
      Input(Audio(Scale, 0, 0), 2, Audio(1, 1, 1)) }

\* <<centerX, centerY>> and clipRadius handed to updateCenter
Geometries ==
    { [center |-> <<0, 0>>, maxRadius |-> 2],
      [center |-> <<1, 0>>, maxRadius |-> 3] }

NeverSpawned == [f \in Bands |-> 0]      \* lastBassSpawn = lastMidSpawn = lastTrebleSpawn = 0

(***************************************************************************)
(* LoopPulseManager                                                        *)
(*                                                                         *)
(* The record carries the fields that decide the manager's life cycle.     *)
(* centerX, centerY, maxRadius, animationIntensity, expansionSpeed,        *)
(* pulseMaxRadius and falloffWidth are read only by the geometric formula  *)
(* of a running pulse, whose value the model does not evaluate: a query    *)
(* returns "1" or "0.3" where the code returns that literal and            *)
(* "geometry" where it returns the value of the formula.                   *)
(* Durations are in ticks; totalCycles is the code's number.               *)
(***************************************************************************)
NewLoopPulseManager(loopDuration, totalCycles, now) ==
    [ loopDuration |-> loopDuration,
      totalCycles  |-> totalCycles,
      startTime    |-> now,
      currentCycle |-> 0,
      isCompleted  |-> FALSE ]

LoopPulseUpdateParams(m, loopDuration, totalCycles) ==
    [m EXCEPT !.loopDuration = loopDuration, !.totalCycles = totalCycles]

\* mutant of reset(): the terminal flag survives
LoopPulseResetKeepsFlag(m, now) ==
    [m EXCEPT !.startTime = now, !.currentCycle = 0]

LoopPulseReset(m, now) ==
    [m EXCEPT !.startTime = now, !.currentCycle = 0, !.isCompleted = FALSE]

LoopPulseComplete(m) == [m EXCEPT !.isCompleted = TRUE]

\* getPulseMultiplier(x, y): <<manager afterwards, returned value>>
GetPulseMultiplier(m, now) ==
    LET totalElapsed == now - m.startTime
        totalDuration == m.loopDuration * m.totalCycles
    IN  IF m.isCompleted
        THEN <<m, "1">>
        ELSE IF m.totalCycles > 0 /\ totalElapsed >= totalDuration
        THEN <<[m EXCEPT !.isCompleted = TRUE], "1">>
        ELSE <<[m EXCEPT !.currentCycle = totalElapsed \div m.loopDuration], "geometry">>

\* getPulseSizeModulation(x, y): <<manager afterwards, returned value>>
GetPulseSizeModulation(m, now) ==
    LET totalElapsed == now - m.startTime
        totalDuration == m.loopDuration * m.totalCycles
    IN  IF m.isCompleted
        THEN <<m, "0.3">>
        ELSE IF totalElapsed >= totalDuration
        THEN <<[m EXCEPT !.isCompleted = TRUE], "0.3">>
        ELSE <<m, "geometry">>

IsAnimationComplete(m) == m.isCompleted

(***************************************************************************)
(* LoopRippleManager                                                       *)
(*                                                                         *)
(* A ripple's speed is maxRadius / loopDuration px per second, so every    *)
(* radius is a multiple of maxRadius / (loopDuration in ticks) px.  The    *)
(* model keeps currentRadius in units of 1 / radiusUnit px, radiusUnit     *)
(* being the loopDuration (ticks) the ripple was spawned with, and speed   *)
(* in those units per tick; both are exact.                                *)
(***************************************************************************)
NewLoopRippleManager(center, maxRadius, loopDuration, totalCycles, now) ==
    [ ripples            |-> <<>>,
      center             |-> center,
      maxRadius          |-> maxRadius,
      loopDuration       |-> loopDuration,
      totalCycles        |-> totalCycles,
      startTime          |-> now,
      currentCycle       |-> 0,
      animationIntensity |-> 1,
      isCompleted        |-> FALSE,
      cyclePause         |-> 0,
      lastUpdateTime     |-> now ]

LoopRippleUpdateCenter(m, center, maxRadius) ==
    [m EXCEPT !.center = center, !.maxRadius = maxRadius]

LoopRippleUpdateParams(m, loopDuration, totalCycles, intensity, cyclePause) ==
    [m EXCEPT !.loopDuration = loopDuration, !.totalCycles = totalCycles,
              !.animationIntensity = intensity, !.cyclePause = cyclePause]

LoopRippleReset(m, now) ==
    [m EXCEPT !.startTime = now, !.lastUpdateTime = now, !.currentCycle = 0,
              !.isCompleted = FALSE, !.ripples = <<>>]

NewLoopRipple(m, cycleIndex, now) ==
    [ id            |-> <<cycleIndex, 0, now>>,
      birthTime     |-> now,
      currentRadius |-> 0,
      speed         |-> m.maxRadius,
      radiusUnit    |-> m.loopDuration,
      amplitude     |-> m.animationIntensity * 20,
      maxRadius     |-> m.maxRadius,
      cycleIndex    |-> cycleIndex ]

\* cycleElapsed < 0.1 (seconds)
InSpawnWindow(cycleElapsed) == cycleElapsed * TickMs < 100

\* mutant of the spawn branches: a new cycle pushes without emptying the pool
LoopRippleSpawnKeepsOld(m, newCycle, cycleElapsed, now) ==
    IF newCycle # m.currentCycle /\ InSpawnWindow(cycleElapsed)
    THEN [m EXCEPT !.ripples = Append(m.ripples, NewLoopRipple(m, newCycle, now)),
                   !.currentCycle = newCycle]
    ELSE IF Len(m.ripples) = 0 /\ InSpawnWindow(cycleElapsed) /\ newCycle = 0
    THEN [m EXCEPT !.ripples = Append(m.ripples, NewLoopRipple(m, m.currentCycle, now))]
    ELSE m

\* the two spawn branches of update()
LoopRippleSpawn(m, newCycle, cycleElapsed, now) ==
    IF newCycle # m.currentCycle /\ InSpawnWindow(cycleElapsed)
    THEN [m EXCEPT !.ripples = <<NewLoopRipple(m, newCycle, now)>>,
                   !.currentCycle = newCycle]
    ELSE IF Len(m.ripples) = 0 /\ InSpawnWindow(cycleElapsed) /\ newCycle = 0
    THEN [m EXCEPT !.ripples = Append(m.ripples, NewLoopRipple(m, m.currentCycle, now))]
    ELSE m

\* mutant of the advance: one tick's worth per update, whatever the frame time
LoopRippleAdvanceFixedStep(r, deltaTime) ==
    [r EXCEPT !.currentRadius = @ + r.speed]

LoopRippleAdvance(r, deltaTime) ==
    [r EXCEPT !.currentRadius = @ + r.speed * deltaTime]

\* currentRadius < maxRadius * 1.1
LoopRippleKeep(r) == r.currentRadius * 10 < r.maxRadius * r.radiusUnit * 11

LoopRippleFilter(pool, deltaTime) ==
    SelectSeq([i \in 1..Len(pool) |-> LoopRippleAdvance(pool[i], deltaTime)], LoopRippleKeep)

\* mutant of update(): no early return of a completed manager
LoopRippleUpdateCompletedToo(m, now) ==
    LET totalElapsed == now - m.startTime
        totalDuration == (m.loopDuration + m.cyclePause) * m.totalCycles
        timed == [m EXCEPT !.lastUpdateTime = now]
    IN  IF totalElapsed >= totalDuration
        THEN [timed EXCEPT !.isCompleted = TRUE, !.ripples = <<>>]
        ELSE [timed EXCEPT !.isCompleted = FALSE]

LoopRippleUpdate(m, now) ==
    LET deltaTime == now - m.lastUpdateTime
        totalElapsed == now - m.startTime
        effectiveCycleDuration == m.loopDuration + m.cyclePause
        totalDuration == effectiveCycleDuration * m.totalCycles
        cycleElapsed == totalElapsed % effectiveCycleDuration
        newCycle == totalElapsed \div effectiveCycleDuration
        timed == [m EXCEPT !.lastUpdateTime = now]
        spawned == LoopRippleSpawn(timed, newCycle, cycleElapsed, now)
    IN  IF m.isCompleted
        THEN m
        ELSE IF totalElapsed >= totalDuration
        THEN [timed EXCEPT !.isCompleted = TRUE, !.ripples = <<>>]
        ELSE [spawned EXCEPT !.ripples = LoopRippleFilter(spawned.ripples, deltaTime)]

(***************************************************************************)
(* Inputs of the loop managers                                             *)
(***************************************************************************)
\* params.loopDuration (ticks: 1 s and 0.5 s) and params.loopCycles (-1: unbounded)
PulseParams ==
    { [loopDuration |-> d, totalCycles |-> n] : d \in {1000 \div TickMs, 500 \div TickMs},
                                                n \in {-1, 1, 2} }

\* params.loopDuration (ticks: 0.2 s and 0.3 s), params.loopCycles,
\* params.audioSensitivity, params.rippleCyclePause (ticks: 0 and 0.1 s)
LoopRippleParams ==
    { [loopDuration |-> d, totalCycles |-> n, intensity |-> 1, cyclePause |-> c] :
          d \in {200 \div TickMs, 300 \div TickMs}, n \in {-1, 2}, c \in {0, 100 \div TickMs} }

\* the frequency-reactive managers and the scripted test, not in use
FreqUnused ==
    /\ dateNow = 0
    /\ audioAnimationMode = "wave"
    /\ waves = <<>>
    /\ waveLastSpawn = NeverSpawned
    /\ ripples = <<>>
    /\ rippleLastSpawn = NeverSpawned
    /\ waveCenter = <<0, 0>>
    /\ waveMaxRadius = 2
    /\ rippleCenter = <<0, 0>>
    /\ rippleMaxRadius = 2
    /\ calls = <<>>

LoopPulseUnused ==
    /\ loopPulse = NewLoopPulseManager(1000 \div TickMs, -1, 0)
    /\ pulseReturned = "none"
    /\ pulseSince = {}

LoopRippleUnused ==
    /\ loopRipple = NewLoopRippleManager(<<0, 0>>, 2, 200 \div TickMs, -1, 0)
    /\ loopRippleChangedAt = -1

\* the loop managers, not in use
LoopUnused ==
    /\ perfNow = 0
    /\ LoopPulseUnused
    /\ LoopRippleUnused

(***************************************************************************)
(* Colours                                                                 *)
(*                                                                         *)
(* A colour string is a record: "hex" with its six hexadecimal digits,     *)
(* "hsl" with hue (degrees), saturation and lightness (percent), "rgb"     *)
(* with the three channels lerpColor printed, "rgb(NaN)" for the string    *)
(* lerpColor prints when its progress is NaN.                              *)
(***************************************************************************)
Hex(digits) == [fmt |-> "hex", v |-> digits]
Hsl(h, s, l) == [fmt |-> "hsl", v |-> <<h, s, l>>]
Rgb(r, g, b) == [fmt |-> "rgb", v |-> <<r, g, b>>]
RgbNaN == [fmt |-> "rgb(NaN)", v |-> <<>>]
NoColor == [fmt |-> "none", v |-> <<>>]

IdleColor == Hsl(200, 100, 60)                  \* 'hsl(200, 100%, 60%)'
ThinkingColor == Hex(<<2, 1, 15, 4, 13, 15>>)   \* '#21F4DF'
ListeningColor == Hex(<<2, 1, 7, 2, 15, 4>>)    \* '#2172F4'
originalDotColor == IdleColor

\* Math.round of num / den, num >= 0
Round(num, den) == (2 * num + den) \div (2 * den)

\* hue2rgb with t in degrees / 360 and p, q in 1 / 10000: the result in 1 / 600000
Hue2Rgb(p, q, t) ==
    LET tt == IF t < 0 THEN t + 360 ELSE IF t > 360 THEN t - 360 ELSE t
    IN  IF tt < 60 THEN p * 60 + (q - p) * tt
        ELSE IF tt < 180 THEN q * 60
        ELSE IF tt < 240 THEN p * 60 + (q - p) * (240 - tt)
        ELSE p * 60

HslToRgb(h, s, l) ==
    IF s = 0
    THEN LET val == Round(l * 255, 100) IN <<val, val, val>>
    ELSE LET q == IF l < 50 THEN l * (100 + s) ELSE l * 100 + s * 100 - l * s
             p == 2 * l * 100 - q
         IN  << Round(Hue2Rgb(p, q, h + 120) * 255, 600000),
                Round(Hue2Rgb(p, q, h) * 255, 600000),
                Round(Hue2Rgb(p, q, h - 120) * 255, 600000) >>

ParseColor(color) ==
    IF color.fmt = "hex"
    THEN << 16 * color.v[1] + color.v[2], 16 * color.v[3] + color.v[4],
            16 * color.v[5] + color.v[6] >>
    ELSE IF color.fmt = "hsl"
    THEN HslToRgb(color.v[1], color.v[2], color.v[3])
    ELSE <<255, 255, 255>>

\* lerpColor at progress num / den, 0 <= num <= den
LerpColor(color1, color2, num, den) ==
    LET c1 == ParseColor(color1)
        c2 == ParseColor(color2)
        ch(i) == Round(c1[i] * den + (c2[i] - c1[i]) * num, den)
    IN  Rgb(ch(1), ch(2), ch(3))

NoTransition ==
    [ isTransitioning |-> FALSE, sourceColor |-> NoColor, targetColor |-> NoColor,
      startTime |-> 0, duration |-> 0 ]

\* the state startColorTransition(targetColor, duration) sets: sourceColor is params.dotColor
NewTransition(source, target, duration, now) ==
    [ isTransitioning |-> TRUE, sourceColor |-> source, targetColor |-> target,
      startTime |-> now, duration |-> duration ]

\* elapsed / duration is NaN: 0 / 0
ProgressIsNaN(t, now) == t.duration = 0 /\ now - t.startTime = 0

\* Math.min(elapsed / duration, 1) >= 1; x / 0 is Infinity for x > 0
ProgressComplete(t, now) ==
    IF t.duration = 0 THEN now - t.startTime > 0 ELSE now - t.startTime >= t.duration

\* the colour drawHalftone assigns to fillStyle
FrameColor(t, paramsDotColor, now) ==
    IF ~t.isTransitioning THEN paramsDotColor
    ELSE IF ProgressIsNaN(t, now) THEN RgbNaN
    ELSE IF ProgressComplete(t, now) THEN t.targetColor
    ELSE LerpColor(t.sourceColor, t.targetColor, now - t.startTime, t.duration)

\* the colour state, not in use
ColorUnused ==
    /\ dotColor = IdleColor
    /\ colorTransition = NoTransition
    /\ drawTransition = NoTransition
    /\ currentColor = NoColor
    /\ flow = "idle"
    /\ flowStart = 0
    /\ resting = NoColor

(***************************************************************************)
(* Vector optimizer of generateSVG (optimize = true)                       *)
(*                                                                         *)
(* Circle records carry integer centres and radii, so the overlap test     *)
(* sqrt(dx^2 + dy^2) < r1 + r2 is decided exactly on the squares.  Array   *)
(* indices are 1-based here (0-based in the code).  A union polygon is     *)
(* kept as the set of circles it covers plus a flag telling whether        *)
(* polygonToPath can walk it.                                              *)
(***************************************************************************)
Circle(x, y, r) == [x |-> x, y |-> y, r |-> r]

\* centres of the exported circles, in circleData order
Positions == << <<0, 0>>, <<3, 0>>, <<6, 0>>, <<3, 4>> >>

\* circleData: one circle per position, every radius 1..MaxCircleRadius
CircleSets ==
    { [k \in 1..Len(Positions) |-> Circle(Positions[k][1], Positions[k][2], rs[k])] :
        rs \in [1..Len(Positions) -> 1..MaxCircleRadius] }

Square(n) == n * n

\* mutant of Overlap: touching circles count as overlapping
OverlapOrTouching(c1, c2) ==
    Square(c1.x - c2.x) + Square(c1.y - c2.y) <= Square(c1.r + c2.r)

\* distance < (circle1.r + circle2.r)
Overlap(c1, c2) ==
    Square(c1.x - c2.x) + Square(c1.y - c2.y) < Square(c1.r + c2.r)

\* new UnionFind(size)
NewUnionFind(size) ==
    [parent |-> [k \in 1..size |-> k], rank |-> [k \in 1..size |-> 0]]

RECURSIVE UFRoot(_, _)
UFRoot(parent, x) == IF parent[x] = x THEN x ELSE UFRoot(parent, parent[x])

RECURSIVE UFPath(_, _)
UFPath(parent, x) == IF parent[x] = x THEN {} ELSE {x} \cup UFPath(parent, parent[x])

\* find(x) with its path compression: <<the structure afterwards, the root>>
UFFind(uf, x) ==
    LET root == UFRoot(uf.parent, x)
        path == UFPath(uf.parent, x)
    IN  << [uf EXCEPT !.parent = [k \in DOMAIN uf.parent |->
                                    IF k \in path THEN root ELSE uf.parent[k]]],
           root >>

\* mutant of UFUnion: the branch of equal ranks is missing
UFUnionNoTie(uf, x, y) ==
    LET fx == UFFind(uf, x)
        fy == UFFind(fx[1], y)
        u == fy[1]
        rootX == fx[2]
        rootY == fy[2]
    IN  IF rootX = rootY THEN u
        ELSE IF u.rank[rootX] < u.rank[rootY] THEN [u EXCEPT !.parent[rootX] = rootY]
        ELSE IF u.rank[rootX] > u.rank[rootY] THEN [u EXCEPT !.parent[rootY] = rootX]
        ELSE u

\* union(x, y), by rank
UFUnion(uf, x, y) ==
    LET fx == UFFind(uf, x)
        fy == UFFind(fx[1], y)
        u == fy[1]
        rootX == fx[2]
        rootY == fy[2]
    IN  IF rootX = rootY THEN u
        ELSE IF u.rank[rootX] < u.rank[rootY] THEN [u EXCEPT !.parent[rootX] = rootY]
        ELSE IF u.rank[rootX] > u.rank[rootY] THEN [u EXCEPT !.parent[rootY] = rootX]
        ELSE [u EXCEPT !.parent[rootY] = rootX, !.rank[rootX] = @ + 1]

\* getGroups() as groupArray: the index lists in the insertion order of the Map, that is by
\* the first index of each root
RECURSIVE GroupsFrom(_, _, _)
GroupsFrom(parent, k, acc) ==
    IF k > Len(parent) THEN acc
    ELSE LET root == UFRoot(parent, k)
             at == { g \in 1..Len(acc) : UFRoot(parent, acc[g][1]) = root }
         IN  IF at = {}
             THEN GroupsFrom(parent, k + 1, Append(acc, <<k>>))
             ELSE GroupsFrom(parent, k + 1,
                             [acc EXCEPT ![CHOOSE g \in at : TRUE] = Append(@, k)])

GetGroups(uf) == GroupsFrom(uf.parent, 1, <<>>)

\* the pair the two nested loops visit after (i, j); <<size + 1, size + 2>> once they are over
NextPair(i, j, size) ==
    IF j < size THEN <<i, j + 1>>
    ELSE IF i + 2 <= size THEN <<i + 1, i + 2>>
    ELSE <<size + 1, size + 2>>

\* mutant of IsMultiGroup: every group goes through calculateUnionPath
IsAnyGroup(indices) == Len(indices) >= 1

\* indices.length > 1
IsMultiGroup(indices) == Len(indices) > 1

\* <circle cx cy r fill />
CircleElement(c) == [tag |-> "circle", cx |-> c.x, cy |-> c.y, r |-> c.r]

\* the d attribute "M x-r,y A r,r 0 1,0 x+r,y A r,r 0 1,0 x-r,y Z"
TwoArcs(c) == [kind |-> "arcs", cx |-> c.x, cy |-> c.y, r |-> c.r]

\* the d attribute polygonToPath builds from the union of the circles `members`
PolygonPath(members) == [kind |-> "polygon", members |-> members]

\* <path d fill fill-rule="nonzero" />
PathElement(d) == [tag |-> "path", d |-> d]

\* <rect width height fill />
RectElement == [tag |-> "rect"]

NoPolygon == [null |-> TRUE, members |-> {}, malformed |-> FALSE]

\* what one martinez.union call can do
UnionOutcomes == {"ok", "throws", "empty", "malformed"}

\* mutant of UnionStep: a union that fails throws the accumulated polygon away
UnionStepStartsOver(unionPolygon, c, outcome) ==
    IF unionPolygon.null
    THEN [null |-> FALSE, members |-> {c}, malformed |-> FALSE]
    ELSE IF outcome = "ok"
    THEN [null |-> FALSE, members |-> unionPolygon.members \cup {c}, malformed |-> FALSE]
    ELSE IF outcome = "malformed"
    THEN [null |-> FALSE, members |-> unionPolygon.members \cup {c}, malformed |-> TRUE]
    ELSE [null |-> TRUE, members |-> {}, malformed |-> FALSE]

\* unionPolygon after processCircle took circle c of the group
UnionStep(unionPolygon, c, outcome) ==
    IF unionPolygon.null
    THEN [null |-> FALSE, members |-> {c}, malformed |-> FALSE]
    ELSE IF outcome = "ok"
    THEN [null |-> FALSE, members |-> unionPolygon.members \cup {c}, malformed |-> FALSE]
    ELSE IF outcome = "malformed"
    THEN [null |-> FALSE, members |-> unionPolygon.members \cup {c}, malformed |-> TRUE]
    ELSE unionPolygon

\* the largest circle of the group, the first one among equals (reduce with c.r > max.r)
RECURSIVE LargestFrom(_, _, _)
LargestFrom(cs, k, max) ==
    IF k > Len(cs) THEN max
    ELSE LargestFrom(cs, k + 1, IF cs[k].r > max.r THEN cs[k] ELSE max)

Largest(cs) == LargestFrom(cs, 2, cs[1])

\* the export before generateSVG is called with circleData
NewExport(circleData) ==
    [ pc |-> "idle",
      circleData |-> circleData,
      uf |-> NewUnionFind(0),
      i |-> 1, j |-> 2,
      groupArray |-> <<>>,
      g |-> 1,
      unionPolygon |-> NoPolygon,
      k |-> 1,
      circles |-> <<>>,
      isOptimizing |-> FALSE,
      lastProgress |-> -1,
      promise |-> "pending",
      document |-> <<>>,
      failures |-> 0,
      unionFailed |-> FALSE,
      skipped |-> {},
      fallback |-> FALSE ]

\* the export state, not in use
SvgUnused ==
    svg = NewExport(<<>>)

(***************************************************************************)
(* The dot grid of one frame                                               *)
(*                                                                         *)
(* Lengths are in 1/PxScale px and square roots are rounded down to that   *)
(* grid.  The falloff is the linear one.  What the animation managers      *)
(* return for a grid point (a size factor, in tenths, and for the ripples  *)
(* of the audio mode a vertical displacement) is an input of the frame.    *)
(***************************************************************************)
PxScale == 10 * 10

\* the largest r in lo..hi with r * r <= n
RECURSIVE SqrtBetween(_, _, _)
SqrtBetween(n, lo, hi) ==
    IF lo = hi THEN lo
    ELSE LET mid == (lo + hi + 1) \div 2
         IN  IF mid * mid <= n THEN SqrtBetween(n, mid, hi) ELSE SqrtBetween(n, lo, mid - 1)

\* Math.sqrt
ISqrt(n) == SqrtBetween(n, 0, 46340)

\* params of a 600 x 600 field centred at 50% / 50% with clip radius 250, dots from 1 to 85
FieldParams(gridDensity) ==
    [ width |-> 600, height |-> 600, gridDensity |-> gridDensity,
      centerX |-> 50, centerY |-> 50, circularRadius |-> 250,
      minDotSize |-> 1, maxDotSize |-> 85 ]

\* a grid of spacing 16 (no grid point at the centre) and one of spacing 40 (one at the centre)
ParamSets == { FieldParams(36), FieldParams(15) }

Frame(renderer, mode, factor, shift) ==
    [renderer |-> renderer, mode |-> mode, factor |-> factor, shift |-> shift]

\* the renderer of a frame and what its managers return at the grid points
Frames ==
    { Frame("raster", "static", 10, 0),
      Frame("raster", "pulse", 13, 0),
      Frame("raster", "wave", 15, 0),
      Frame("raster", "ripple", 10, 2 * PxScale),
      Frame("raster", "loopPulse", 3, 0),
      Frame("svg", "static", 10, 0),
      Frame("svg", "audio", 15, 0),
      Frame("offline", "loopRipple", 3, 0),
      Frame("offline", "loopRipple", 10, 0),
      Frame("offline", "loopRipple", 30, 0) }

\* Math.max(1, Math.floor(Math.min(width, height) / params.gridDensity))
Spacing(p) ==
    LET cells == Min(p.width, p.height) \div p.gridDensity
    IN  IF cells < 1 THEN 1 ELSE cells

\* spacing / 2 + k * spacing
GridPoint(p, k) == (Spacing(p) * PxScale) \div 2 + k * Spacing(p) * PxScale

\* how many grid points are below `extent`
GridCount(p, extent) ==
    (extent * PxScale - (Spacing(p) * PxScale) \div 2 - 1) \div (Spacing(p) * PxScale) + 1

\* (params.centerX / 100) * width
CenterOf(percent, extent) == (percent * extent * PxScale) \div 100

\* Math.sqrt(Math.pow(width / 2, 2) + Math.pow(height / 2, 2))
MaxDistance(p) ==
    ISqrt(Square((p.width * PxScale) \div 2) + Square((p.height * PxScale) \div 2))

\* Math.sqrt(Math.pow(x - centerX, 2) + Math.pow(y - centerY, 2))
DistanceFromCenter(p, x, y) ==
    ISqrt(Square(x - CenterOf(p.centerX, p.width)) + Square(y - CenterOf(p.centerY, p.height)))

\* calculateDotSize, falloffType 'linear'
CalculateDotSize(p, distance, maxDistance) ==
    LET rest == maxDistance - distance
        falloff == IF rest < 0 THEN 0 ELSE IF rest > maxDistance THEN maxDistance ELSE rest
    IN  p.minDotSize * PxScale
          + ((p.maxDotSize - p.minDotSize) * PxScale * falloff) \div maxDistance

\* mutant of Clipped: the whole diameter is added to the distance
ClippedByDiameter(p, distance, dotSize) ==
    distance + dotSize > p.circularRadius * PxScale

\* distance + dotSize / 2 > clipRadius
Clipped(p, distance, dotSize) ==
    2 * distance + dotSize > 2 * p.circularRadius * PxScale

\* dotSize > 0.1
Visible(dotSize) == 10 * dotSize > PxScale

DotRecord(x, y, dotX, dotY, distance, dotSize, emitted) ==
    [ x |-> x, y |-> y, dotX |-> dotX, dotY |-> dotY,
      distance |-> distance, dotSize |-> dotSize, emitted |-> emitted ]

NoDot == DotRecord(-1, -1, -1, -1, -1, 0, FALSE)

\* one iteration of the grid loops of drawHalftone
RasterDotAt(f, x, y) ==
    LET distance == DistanceFromCenter(f.params, x, y)
        dotSize == (CalculateDotSize(f.params, distance, MaxDistance(f.params))
                      * f.frame.factor) \div 10
    IN  DotRecord(x, y, x, y + f.frame.shift, distance, dotSize,
                  ~Clipped(f.params, distance, dotSize) /\ Visible(dotSize))

\* one iteration of the grid loops of generateSVG
SvgDotAt(f, x, y) ==
    LET distance == DistanceFromCenter(f.params, x, y)
        dotSize == (CalculateDotSize(f.params, distance, MaxDistance(f.params))
                      * f.frame.factor) \div 10
    IN  DotRecord(x, y, x, y, distance, dotSize,
                  ~Clipped(f.params, distance, dotSize) /\ Visible(dotSize))

\* one iteration of the grid loops of renderAtTime
OfflineDotAt(f, x, y) ==
    LET dist == DistanceFromCenter(f.params, x, y)
        dotSize == (f.params.maxDotSize * PxScale * f.frame.factor) \div 10
    IN  DotRecord(x, y, x, y, dist, dotSize,
                  /\ ~(dist > f.params.circularRadius * PxScale)
                  /\ ~Clipped(f.params, dist, dotSize)
                  /\ Visible(dotSize))

\* the indices the nested loops (x outer, y inner) are at after <<ix, iy>>
NextGridIndex(p, c) ==
    IF c[2] + 1 < GridCount(p, p.height) THEN <<c[1], c[2] + 1>> ELSE <<c[1] + 1, 0>>

\* the grid loops are over
FrameDone == cursor[1] >= GridCount(field.params, field.params.width)

\* no frame
DotsUnused ==
    /\ field = [params |-> FieldParams(1), frame |-> Frame("none", "static", 10, 0)]
    /\ cursor = <<0, 0>>
    /\ dot = NoDot
    /\ centreDot = NoDot

(***************************************************************************)
(* Live recording                                                          *)
(*                                                                         *)
(* Times are in ms, params.loopDuration in tenths of a second.  The        *)
(* MediaRecorder is kept as its state, the frames its encoder holds and    *)
(* the events stop() has queued (a last dataavailable, then stop).         *)
(***************************************************************************)
\* the refs before any recording
NoRecording ==
    [ isRecording |-> FALSE, frameRate |-> 1, loopDuration |-> 1, loopCycles |-> 1,
      recorderState |-> "none", queued |-> "none", encoded |-> 0, recordedChunks |-> 0,
      captureTrack |-> FALSE,
      isRecordingActive |-> FALSE, framesCaptured |-> 0, expectedFrames |-> 0,
      frameInterval |-> 0, accumulator |-> 0,
      starts |-> 0, requested |-> 0, completions |-> 0, blob |-> -1, explicitStop |-> FALSE,
      stopCalls |-> 0 ]

\* mutant of StopRecording: the state of the recorder is not looked at
StopRecordingUnguarded(r) ==
    [r EXCEPT !.recorderState = "inactive",
              !.queued = "dataavailable",
              !.isRecordingActive = FALSE]

\* mutant of StopRecording: the active flag is left to the stop event of the recorder
StopRecordingKeepsActive(r) ==
    IF r.recorderState = "recording"
    THEN [r EXCEPT !.recorderState = "inactive", !.queued = "dataavailable"]
    ELSE r

\* stopRecording
StopRecording(r) ==
    IF r.recorderState = "recording"
    THEN [r EXCEPT !.recorderState = "inactive",
                   !.queued = "dataavailable",
                   !.isRecordingActive = FALSE]
    ELSE [r EXCEPT !.isRecordingActive = FALSE]

\* updateRecordingProgress; elapsedOver tells whether elapsed >= totalDuration, which the
\* branch without a frame count looks at
UpdateRecordingProgress(r, elapsedOver) ==
    IF ~r.isRecording THEN r
    ELSE IF r.isRecordingActive /\ r.expectedFrames > 0
    THEN IF r.framesCaptured * 100 >= 100 * r.expectedFrames THEN StopRecording(r) ELSE r
    ELSE IF r.loopCycles > 0 /\ elapsedOver THEN StopRecording(r) ELSE r

\* animate: if (expectedFrames > 0 && framesCaptured >= expectedFrames) stopRecording()
AutoStop(r) ==
    IF r.expectedFrames > 0 /\ r.framesCaptured >= r.expectedFrames
    THEN StopRecording(r)
    ELSE r

\* t.requestFrame(): the canvas frame goes to the encoder of a recording recorder
RequestFrame(r) ==
    IF r.captureTrack
    THEN [r EXCEPT !.requested = @ + 1,
                   !.encoded = IF r.recorderState = "recording" THEN @ + 1 ELSE @]
    ELSE r

\* animate, dt ms after the previous call
Animate(r, dt, shouldDraw, elapsedOver) ==
    IF r.isRecording /\ r.isRecordingActive
    THEN LET a == [r EXCEPT !.accumulator = @ + dt]
         IN  IF 2 * a.accumulator >= 2 * a.frameInterval - 1
             THEN LET drawn == IF shouldDraw THEN UpdateRecordingProgress(a, elapsedOver) ELSE a
                      framed == RequestFrame(drawn)
                      counted == [framed EXCEPT !.framesCaptured = @ + 1,
                                                !.accumulator = @ - framed.frameInterval]
                  IN  AutoStop(UpdateRecordingProgress(counted, elapsedOver))
             ELSE a
    ELSE UpdateRecordingProgress(r, elapsedOver)

\* startRecording, the MediaRecorder starting without an exception
StartRecording(r, isRecording, frameRate, loopDuration, loopCycles) ==
    LET fps == IF frameRate < 1 THEN 1 ELSE frameRate
    IN  [ isRecording |-> isRecording, frameRate |-> frameRate,
          loopDuration |-> loopDuration, loopCycles |-> loopCycles,
          recorderState |-> "recording", queued |-> "none", encoded |-> 0,
          recordedChunks |-> 0,
          captureTrack |-> TRUE,
          isRecordingActive |-> TRUE, framesCaptured |-> 0,
          expectedFrames |-> Round(fps * loopDuration * loopCycles, 10),
          frameInterval |-> 1000 \div fps, accumulator |-> 0,
          starts |-> r.starts + 1, requested |-> 0, completions |-> 0, blob |-> -1,
          explicitStop |-> FALSE, stopCalls |-> 0 ]

\* mediaRecorder.ondataavailable
OnDataAvailable(r) ==
    [r EXCEPT !.recordedChunks = IF r.encoded > 0 THEN @ + r.encoded ELSE @,
              !.encoded = 0]

\* mediaRecorder.onstop
OnStop(r) ==
    [r EXCEPT !.blob = r.recordedChunks,
              !.completions = @ + 1,
              !.isRecordingActive = FALSE,
              !.captureTrack = FALSE]

\* the recording state, not in use
RecordingUnused ==
    recording = NoRecording

(***************************************************************************)
(* The mask image: loadSvgMask and the effect on [maskEnabled, maskSvgPath] *)
(***************************************************************************)
\* values of params.maskSvgPath: the empty string, a string of blanks, an SVG file (fetched
\* first, :1144-1168) and another image (loaded directly, :1171)
MaskPaths == {"", " ", "a.svg", "b.png"}

\* svgPath.trim() === ''
IsBlank(path) == path \in {"", " "}

\* svgPath.endsWith('.svg')
EndsWithSvg(path) == path = "a.svg"

\* maskLoadError === null
NoMaskError == [text |-> "null", path |-> ""]

\* the ways one load can fail and the string each reports: the fetch of an SVG file (:1166)
\* and the image's error event (:1138)
FailuresOf(path) ==
    IF EndsWithSvg(path) THEN {"Failed to fetch SVG", "Failed to load SVG"}
    ELSE {"Failed to load SVG"}

\* the component before its first effect; latest records the request the last run of the
\* effect made and what became of it
NoMask ==
    [ maskEnabled |-> FALSE, maskSvgPath |-> "",
      maskImage |-> "null",              \* maskImageRef.current: the path the image came from
      maskLoadError |-> NoMaskError,
      loads |-> {},                      \* promises of loadSvgMask not yet settled
      requests |-> 0,                    \* runs of the effect
      latest |-> "off" ]                 \* off, blank, pending, loaded, failed

\* one run of the effect with the given parameters
MaskEffect(m, maskEnabled, maskSvgPath) ==
    LET m0 == [m EXCEPT !.maskEnabled = maskEnabled,
                        !.maskSvgPath = maskSvgPath,
                        !.requests = @ + 1]
    IN  IF maskEnabled /\ maskSvgPath # ""
        THEN IF IsBlank(maskSvgPath)
             THEN [m0 EXCEPT !.maskImage = "null", !.latest = "blank"]
             ELSE [m0 EXCEPT !.maskLoadError = NoMaskError,
                             !.loads = @ \cup {[id |-> m0.requests, path |-> maskSvgPath]},
                             !.latest = "pending"]
        ELSE [m0 EXCEPT !.maskImage = "null",
                        !.maskLoadError = NoMaskError,
                        !.latest = "off"]

\* the promise of a load resolves with its image
MaskLoaded(m, load) ==
    [m EXCEPT !.maskImage = load.path,
              !.loads = @ \ {load},
              !.latest = IF load.id = m.requests THEN "loaded" ELSE @]

\* the promise of a load rejects
MaskFailed(m, load, text) ==
    [m EXCEPT !.maskImage = "null",
              !.maskLoadError = [text |-> text, path |-> load.path],
              !.loads = @ \ {load},
              !.latest = IF load.id = m.requests THEN "failed" ELSE @]

\* the mask drawHalftone and renderAtTime apply
MaskInUse(m) == IF m.maskEnabled THEN m.maskImage ELSE "null"

\* the mask state, not in use
MaskUnused ==
    mask = NoMask

(***************************************************************************)
(* The conversation: SimpleControlPanel's animationState, the wake-word    *)
(* recognizer, the question recognizers and the timers between them.       *)
(* Timers carry the time left, in ticks of TickMs ms, in the order of      *)
(* their setTimeout calls.                                                 *)
(***************************************************************************)
RIPPLE_DURATION == 500

Timer(kind, ms) == [kind |-> kind, remaining |-> ms \div TickMs]

SetTimeout(c, kind, ms) == [c EXCEPT !.timers = Append(@, Timer(kind, ms))]

\* the component as rendered first, before its effects
NoConversation ==
    [ animationState |-> "idle",
      animationStateRef |-> "idle",
      wake |-> "off",               \* the wake-word recognizer: off, on, erroring (error event
                                    \* dispatched, end event to follow)
      isListening |-> FALSE,        \* the flag of the wake-word effect
      questions |-> <<>>,           \* the question recognizers running
      timers |-> <<>>,
      phase |-> "none",             \* the thinking animation: none, rotation, ripple
      thinkingElapsed |-> 0,        \* history: ticks since handleMessageSent, while it animates
      deaf |-> 0,                   \* history: ticks spent idle without a wake-word recognizer
      beat |-> 0,                   \* ticks since the last instant at which events may arrive
      errors |-> 0 ]                \* history: error events of the recognizers so far

\* the wake-word effect at mount: setTimeout(() => startRecognition(), 1000)
MountConversation(c) == SetTimeout(c, "startRecognition", 1000)

\* startRecognition of the wake-word effect
StartRecognition(c) ==
    IF c.isListening THEN c
    ELSE [c EXCEPT !.wake = "on", !.isListening = TRUE, !.deaf = 0]

\* startListeningStage; wakeWordRecognition is the null stored at mount, so nothing is
\* aborted; the question recognizer starts 100 ms + 400 ms later
StartListeningStage(c) ==
    SetTimeout([c EXCEPT !.animationState = "listening"], "startQuestionRecognition", 100 + 400)

\* recognition.onresult of the wake-word recognizer with a transcript that includes 'hey tara'
WakeWordResult(c) ==
    IF c.animationStateRef = "idle" THEN StartListeningStage(c) ELSE c

\* recognition.onerror of the wake-word recognizer, error other than 'aborted'
WakeOnError(c) ==
    LET c0 == [c EXCEPT !.wake = "erroring", !.isListening = FALSE, !.errors = @ + 1]
    IN  IF c.animationStateRef = "idle" THEN SetTimeout(c0, "startRecognition", 1000) ELSE c0

\* recognition.onend of the wake-word recognizer
WakeOnEnd(c) ==
    LET c0 == [c EXCEPT !.wake = "off", !.isListening = FALSE]
    IN  IF c.animationStateRef = "idle" THEN SetTimeout(c0, "startRecognition", 100) ELSE c0

\* startQuestionRecognition
StartQuestionRecognition(c) ==
    [c EXCEPT !.questions = Append(@, [capturedQuestion |-> FALSE, erroring |-> FALSE])]

\* handleMessageSent, as far as the conversation goes
MessageSent(c) ==
    SetTimeout(SetTimeout([c EXCEPT !.animationState = "thinking",
                                    !.phase = "rotation",
                                    !.thinkingElapsed = 0],
                          "ripple", ROTATION_DURATION),
               "thinkingEnd", THINKING_ANIMATION_DURATION)

\* startThinkingAnimation
StartThinkingAnimation(c) ==
    SetTimeout(MessageSent([c EXCEPT !.animationState = "thinking"]),
               "showResponse", THINKING_ANIMATION_DURATION + 2000)

\* returnToIdle
ReturnToIdle(c) ==
    SetTimeout([c EXCEPT !.animationState = "idle"], "startRecognition", 500)

\* showResponse
ShowResponse(c) ==
    SetTimeout([c EXCEPT !.animationState = "responding"], "returnToListening", 10000)

\* returnToListening
ReturnToListening(c) ==
    SetTimeout([c EXCEPT !.animationState = "listening"], "startQuestionRecognition", 400)

RemoveAt(seq, n) == SubSeq(seq, 1, n - 1) \o SubSeq(seq, n + 1, Len(seq))

\* recognition.onresult of a question recognizer with a final transcript
QuestionOnResult(c, q) == [c EXCEPT !.questions[q].capturedQuestion = TRUE]

\* recognition.onerror of a question recognizer
QuestionOnError(c, q) ==
    SetTimeout([c EXCEPT !.questions[q].erroring = TRUE, !.errors = @ + 1], "returnToIdle", 3000)

\* recognition.onend of a question recognizer
QuestionOnEnd(c, q) ==
    LET c0 == [c EXCEPT !.questions = RemoveAt(@, q)]
    IN  IF c.questions[q].capturedQuestion THEN StartThinkingAnimation(c0) ELSE ReturnToIdle(c0)

\* the callback of a timer
TimerCallback(c, kind) ==
    CASE kind = "startRecognition" -> StartRecognition(c)
      [] kind = "startQuestionRecognition" -> StartQuestionRecognition(c)
      [] kind = "ripple" -> [c EXCEPT !.phase = "ripple"]
      [] kind = "thinkingEnd" -> [c EXCEPT !.animationState = "idle", !.phase = "none"]
      [] kind = "showResponse" -> ShowResponse(c)
      [] kind = "returnToListening" -> ReturnToListening(c)
      [] kind = "returnToIdle" -> ReturnToIdle(c)

\* the timer that fires next, if one is due: the earliest setTimeout among those with no
\* time left
DueTimers(c) == { n \in 1..Len(c.timers) : c.timers[n].remaining = 0 }

FirstDue(c) == CHOOSE n \in DueTimers(c) : \A m \in DueTimers(c) : n <= m

\* something runs before the clock moves: a due timer, the effect that copies animationState
\* to its ref, the end event after an error event
Urgent(c) ==
    \/ DueTimers(c) # {}
    \/ c.animationStateRef # c.animationState
    \/ c.wake = "erroring"
    \/ \E q \in 1..Len(c.questions) : c.questions[q].erroring

\* TickMs go by
Elapse(c) ==
    [c EXCEPT !.timers = [n \in 1..Len(@) |-> [@[n] EXCEPT !.remaining = @ - 1]],
              !.thinkingElapsed = IF c.phase = "none" THEN 0
                                  ELSE Min(@ + 1, THINKING_ANIMATION_DURATION \div TickMs + 1),
              !.deaf = IF c.animationState = "idle" /\ c.wake # "on"
                       THEN Min(@ + 1, MaxDeafMs \div TickMs + 1)
                       ELSE 0,
              !.beat = (@ + 1) % (EventGridMs \div TickMs)]

\* the conversation, not in use
ConversationUnused ==
    conversation = NoConversation

(***************************************************************************)
(* The offline export (startOfflineExport)                                 *)
(*                                                                         *)
(* loopDuration is in tenths of a second, the frame rate in frames per     *)
(* second, timestamps in microseconds.  `written` is what the writer of    *)
(* the MediaStreamTrackGenerator took, `events` the order of rec.stop(),   *)
(* the stop event, onRecordingComplete and the last progress report.       *)
(***************************************************************************)
\* Math.max(1, params.frameRate || 30)
OfflineFps(frameRate) ==
    LET given == IF frameRate = 0 THEN 30 ELSE frameRate
    IN  IF given < 1 THEN 1 ELSE given

\* Math.round(fps * params.loopDuration * params.loopCycles)
TotalFrames(frameRate, loopDuration, loopCycles) ==
    Round(OfflineFps(frameRate) * loopDuration * loopCycles, 10)

\* mutant of TsUs: the timestamp is cut off, not rounded
TsUsFloor(i, fps) == (i * 1000000) \div fps

\* Math.round((i / fps) * 1_000_000)
TsUs(i, fps) == Round(i * 1000000, fps)

\* i % Math.max(1, Math.floor(totalFrames / 100)) === 0
ReportsProgress(i, totalFrames) ==
    LET every == IF totalFrames \div 100 < 1 THEN 1 ELSE totalFrames \div 100
    IN  i % every = 0

\* wall-clock time is counted in thirds of a millisecond, so that 1000 / fps is exact for
\* the frame rates 3, 30 and 60
UnitsPerMs == 3

\* frameDurationMs = 1000 / fps, in time units
FrameDuration(fps) == (1000 * UnitsPerMs) \div fps

\* sleepMs = startedAt + (i + 1) * frameDurationMs - performance.now(), in time units;
\* sinceStart is performance.now() - startedAt
SleepMs(o) == (o.i + 1) * FrameDuration(o.fps) - o.sinceStart

\* the delay of setTimeout(r, sleepMs) if sleepMs > 0, of setTimeout(r, 0) otherwise: the
\* timer takes its delay as a whole number of milliseconds, the fraction cut off
TimerDelay(sleepMs) ==
    IF sleepMs > 0 THEN (sleepMs \div UnitsPerMs) * UnitsPerMs ELSE 0

\* the drawing surfaces: the canvas of the component (canvasRef), the scaled buffer of a
\* live recording (offscreenCanvasRef), and the two canvases startOfflineExport creates
Surfaces == {"canvas", "offscreen", "acc", "sam"}

\* mutant of DrawTarget: the live draw goes to the canvas created last
DrawTargetLatest(isRecording, useOffscreen, offscreenCtx) ==
    IF isRecording /\ useOffscreen /\ offscreenCtx THEN "acc" ELSE "canvas"

\* targetCtx of drawHalftone
DrawTarget(isRecording, useOffscreen, offscreenCtx) ==
    IF isRecording /\ useOffscreen /\ offscreenCtx THEN "offscreen" ELSE "canvas"

\* the surfaces one drawHalftone writes: its target and, if it drew scaled, the canvas it
\* composites to; renderScaleRef is 0.5 exactly when useOffscreenRef is set
DrawHalftoneWrites(isRecording, useOffscreen, offscreenCtx) ==
    {DrawTarget(isRecording, useOffscreen, offscreenCtx)}
        \cup (IF isRecording /\ useOffscreen THEN {"canvas"} ELSE {})

\* the surfaces one iteration of the frame loop writes: renderAtTime(samCtx, t) and the
\* accCtx calls
FrameLoopWrites == {"sam", "acc"}

\* `who` wrote the surfaces `written`
Drew(drawnBy, who, written) ==
    [surface \in Surfaces |-> IF surface \in written THEN drawnBy[surface] \cup {who}
                              ELSE drawnBy[surface]]

NoOffline ==
    [ pc |-> "idle", frameRate |-> 0, loopDuration |-> 0, loopCycles |-> 0,
      fps |-> 0, totalFrames |-> 0, i |-> 0,
      written |-> <<>>, rec |-> "none", queued |-> "none", chunks |-> 0,
      stopped |-> FALSE, blob |-> -1, completions |-> 0,
      lastProgress |-> -1, events |-> <<>>, failures |-> 0,
      sinceStart |-> 0, timerDelay |-> 0,
      drawnBy |-> [surface \in Surfaces |-> {}] ]

\* startOfflineExport up to the frame loop; supported: the callbacks are given, the browser
\* has MediaStreamTrackGenerator and VideoEncoder, and both 2D contexts were obtained
StartOfflineExport(o, frameRate, loopDuration, loopCycles, supported) ==
    IF ~supported
    THEN [o EXCEPT !.pc = "unsupported", !.lastProgress = 0]
    ELSE [o EXCEPT !.pc = "loop",
                   !.frameRate = frameRate, !.loopDuration = loopDuration,
                   !.loopCycles = loopCycles,
                   !.fps = OfflineFps(frameRate),
                   !.totalFrames = TotalFrames(frameRate, loopDuration, loopCycles),
                   !.i = 0,
                   !.rec = "recording",
                   !.lastProgress = 0]

\* one iteration of the frame loop up to its pacing timer; writes: writable.write(vf)
\* resolves (if it rejects, or no VideoFrame can be made, startOfflineExport rejects there)
OfflineFrame(o, writes) ==
    IF ~writes
    THEN [o EXCEPT !.pc = "rejected", !.failures = @ + 1]
    ELSE [o EXCEPT !.written = Append(@, [index |-> o.i, timestamp |-> TsUs(o.i, o.fps),
                                          at |-> o.sinceStart]),
                   !.drawnBy = Drew(@, "export", FrameLoopWrites),
                   !.lastProgress = IF ReportsProgress(o.i, o.totalFrames)
                                    THEN Round(o.i * 100, o.totalFrames) ELSE @,
                   !.pc = "sleep"]

\* the end of an iteration of the frame loop: performance.now() is read and the pacing
\* timer is set
OfflineSleep(o) == [o EXCEPT !.timerDelay = TimerDelay(SleepMs(o))]

\* the pacing timer fires: i++
OfflinePaced(o) == [o EXCEPT !.i = @ + 1, !.pc = "loop"]

\* the loop is over: writable.close() is called and awaited
OfflineClose(o) == [o EXCEPT !.pc = "closing"]

\* the recorder stops gathering: a last dataavailable, then stop, are queued
RecorderStops(o) == [o EXCEPT !.rec = "inactive", !.queued = "dataavailable"]

\* rec.stop() after the close, then the await of `stopped`
OfflineStop(o) ==
    LET called == [o EXCEPT !.events = Append(@, "rec.stop"), !.pc = "stopping"]
    IN  IF o.rec = "recording" THEN RecorderStops(called) ELSE called

\* rec.ondataavailable: the chunk holds what was written
OfflineDataAvailable(o) ==
    [o EXCEPT !.chunks = IF Len(o.written) > 0 THEN Len(o.written) ELSE @,
              !.queued = "stop"]

\* rec.onstop: resolves `stopped`
OfflineOnStop(o) ==
    [o EXCEPT !.stopped = TRUE, !.queued = "none", !.events = Append(@, "stop event")]

\* after `await stopped`: the blob, onRecordingComplete(blob), onRecordingProgress(100)
OfflineComplete(o) ==
    [o EXCEPT !.blob = o.chunks,
              !.completions = @ + 1,
              !.lastProgress = 100,
              !.events = @ \o <<"onRecordingComplete", "progress 100">>,
              !.pc = "done"]

OfflineUnused ==
    offline = NoOffline

\* what a call of animate did: kind is none (no call yet), preview (not capturing), early
\* (no frame due), drawn or reused (a frame was due); at is the count of frames requested
\* before the call
NoTick == [kind |-> "none", at |-> 0]

\* durations of one draw, ms: under nine tenths of the frame interval, between that and the
\* interval, over the interval, at the frame rates of the recordings (intervals 50 and 100)
DrawCosts == {20, 48, 95}

NoCapture == [lastDrawDuration |-> 0, tick |-> NoTick]

\* mutant of ShouldDraw: the whole frame interval is the budget
ShouldDrawWithinInterval(lastDrawDuration, frameInterval) == lastDrawDuration <= frameInterval

\* lastDrawDurationRef.current <= frameIntervalRef.current * 0.9
ShouldDraw(lastDrawDuration, frameInterval) == lastDrawDuration * 10 <= frameInterval * 9

\* the frame of this call of animate is due: the recording runs and
\* accumulator + dt >= frameInterval - 0.5
FrameDue(r, dt) ==
    /\ r.isRecording /\ r.isRecordingActive
    /\ 2 * (r.accumulator + dt) >= 2 * r.frameInterval - 1

\* the measured duration after a call of animate: the wrapper around drawHalftone sets it
\* when animate draws through drawFnRef
MeasuredAfter(c, r, dt, drawCost) ==
    [ lastDrawDuration |-> IF FrameDue(r, dt) /\ ShouldDraw(c.lastDrawDuration, r.frameInterval)
                           THEN drawCost ELSE c.lastDrawDuration,
      tick |-> IF ~(r.isRecording /\ r.isRecordingActive)
               THEN [NoTick EXCEPT !.kind = "preview"]
               ELSE IF ~FrameDue(r, dt) THEN [NoTick EXCEPT !.kind = "early"]
               ELSE [kind |-> IF ShouldDraw(c.lastDrawDuration, r.frameInterval)
                              THEN "drawn" ELSE "reused",
                     at |-> r.requested] ]

\* no draw measured
CaptureUnused ==
    capture = NoCapture

\* no task of an export runs, no timer of an export is pending, no other callback ran
NoEventLoop == [running |-> FALSE, timer |-> FALSE, others |-> 0]

EventLoopUnused ==
    eventLoop = NoEventLoop

(***************************************************************************)
(* The chat client: useSocket.  `messages` is state.messages, `received`   *)
(* counts the chat-response events so far (the n-th response carries       *)
(* responseId n), `handed` and `returned` are history: the responses       *)
(* popMessage has resolved with, and its last result (0: undefined);       *)
(* `last` is the handler that ran last.                                    *)
(***************************************************************************)
\* the hook after its first render and its effect
NoSocket ==
    [ connected |-> FALSE, error |-> "null", messages |-> <<>>,
      received |-> 0, handed |-> {}, returned |-> 0, last |-> "none" ]

\* state.messages as the handlers of the effect see it: the effect runs once, after the
\* first render, and its closures keep the state of that render
ClosureMessages == NoSocket.messages

\* response.text.replace(/^\s*\[[^\]]+\]\s*/g, ""): a leading [tag] is cut off
StripTag(response) == [response EXCEPT !.tagged = FALSE]

\* socket.on("connect")
OnConnect(k) ==
    [k EXCEPT !.connected = TRUE, !.error = "null", !.messages = <<>>, !.last = "connect"]

\* socket.on("chat-response")
OnChatResponse(k, response) ==
    [k EXCEPT !.messages = Append(@, [type |-> "chat-response"] @@ StripTag(response)),
              !.received = @ + 1,
              !.last = "chat-response"]

\* socket.on("connect_error"), socket.on("error"), socket.on("disconnect")
OnConnectionLost(k, event, error) ==
    [k EXCEPT !.connected = FALSE, !.error = error, !.messages = ClosureMessages,
              !.last = event]

\* popMessage: the updater resolves with the first message and keeps the rest
PopMessage(k) ==
    IF k.messages = <<>>
    THEN [k EXCEPT !.returned = 0, !.last = "popMessage"]
    ELSE [k EXCEPT !.returned = Head(k.messages).responseId,
                   !.handed = @ \cup {Head(k.messages).responseId},
                   !.messages = Tail(@),
                   !.last = "popMessage"]

\* resetMessages
ResetMessages(k) == [k EXCEPT !.messages = <<>>, !.last = "resetMessages"]

(***************************************************************************)
(* The chat server: the chat-request handler of server/index.js.  Time is  *)
(* counted in ticks of ServerTickMs ms.  A text is the sequence of its     *)
(* words, a word of blanks being " ".  `timers` are the intervals running, *)
(* in the order of their setInterval calls; `emitted` is what was emitted, *)
(* in order, each entry with the ticks since the emission before it of the *)
(* same request; `requests` are the requests received.                     *)
(***************************************************************************)
ServerTickMs == 500

ResponseIntervalMs == 1000

NoServer == [timers |-> <<>>, emitted |-> <<>>, requests |-> <<>>]

\* text.toLowerCase(), word by word
ToLowerCase(word) ==
    CASE word = "Hello" -> "hello"
      [] word = "BYE" -> "bye"
      [] word = "Job" -> "job"
      [] OTHER -> word

NotBlank(word) == word # " "

\* text.trim() === ''
IsBlankText(text) == SelectSeq(text, NotBlank) = <<>>

\* lowerText.includes(word)
Includes(text, word) == \E i \in 1..Len(text) : ToLowerCase(text[i]) = word

\* the n entries of a response list
ResponseList(name, n) == [k \in 1..n |-> [list |-> name, k |-> k]]

\* the list matched by the text
MatchedResponses(text) ==
    IF Includes(text, "hello") THEN ResponseList("hello", 1)
    ELSE IF Includes(text, "bye") THEN ResponseList("bye", 2)
    ELSE IF Includes(text, "job") THEN ResponseList("job", 5)
    ELSE IF Includes(text, "food") THEN ResponseList("food", 9)
    ELSE IF Includes(text, "sleep") THEN ResponseList("sleep", 7)
    ELSE ResponseList("other", 2)

\* a string payload goes through JSON.parse; one that does not parse ends the handler
Parsed(data) ==
    IF data.form = "string"
    THEN IF data.valid THEN [ok |-> TRUE, text |-> data.text]
                       ELSE [ok |-> FALSE, text |-> [type |-> "undefined", words |-> <<>>]]
    ELSE [ok |-> TRUE, text |-> data.text]

\* typeof text === 'string' && text.trim() !== '' of a payload that parsed
Accepted(data) ==
    /\ Parsed(data).ok
    /\ Parsed(data).text.type = "string"
    /\ ~IsBlankText(Parsed(data).text.words)

Emission(socketId, name, body, requestId, gap) ==
    [socket |-> socketId, name |-> name, body |-> body, responseId |-> requestId, gap |-> gap]

\* socket.on('chat-request') of the socket socketId
OnChatRequest(s, socketId, requestId, data) ==
    LET received == [s EXCEPT !.requests = Append(@, [socket |-> socketId,
                                                      requestId |-> requestId,
                                                      data |-> data])]
        responses == MatchedResponses(Parsed(data).text.words)
    IN  IF ~Accepted(data)
        THEN received
        ELSE [received EXCEPT
                 !.emitted = Append(@, Emission(socketId, "chat-event", "CHAT_START_EVENT",
                                                requestId, 0)),
                 !.timers = Append(@, [socket |-> socketId, requestId |-> requestId,
                                       responses |-> responses, responseIndex |-> 0,
                                       remaining |-> ResponseIntervalMs \div ServerTickMs,
                                       since |-> 0])]

\* mutant of the interval's callback: the interval is not cleared after the end event
IntervalCallbackKeepsRunning(s, n) ==
    LET t == s.timers[n]
        rearmed == [t EXCEPT !.remaining = ResponseIntervalMs \div ServerTickMs, !.since = 0]
    IN  IF t.responseIndex < Len(t.responses)
        THEN [s EXCEPT !.emitted = Append(@, Emission(t.socket, "chat-response",
                                                      t.responses[t.responseIndex + 1],
                                                      t.requestId, t.since)),
                       !.timers[n] = [rearmed EXCEPT !.responseIndex = @ + 1]]
        ELSE [s EXCEPT !.emitted = Append(@, Emission(t.socket, "chat-event", "CHAT_END_EVENT",
                                                      t.requestId, t.since)),
                       !.timers[n] = rearmed]

\* the callback of the n-th interval
IntervalCallback(s, n) ==
    LET t == s.timers[n]
        rearmed == [t EXCEPT !.remaining = ResponseIntervalMs \div ServerTickMs, !.since = 0]
    IN  IF t.responseIndex < Len(t.responses)
        THEN [s EXCEPT !.emitted = Append(@, Emission(t.socket, "chat-response",
                                                      t.responses[t.responseIndex + 1],
                                                      t.requestId, t.since)),
                       !.timers[n] = [rearmed EXCEPT !.responseIndex = @ + 1]]
        ELSE [s EXCEPT !.emitted = Append(@, Emission(t.socket, "chat-event", "CHAT_END_EVENT",
                                                      t.requestId, t.since)),
                       !.timers = RemoveAt(@, n)]

\* ServerTickMs go by
ServerElapsed(s) ==
    [s EXCEPT !.timers = [n \in 1..Len(@) |-> [@[n] EXCEPT !.remaining = @ - 1,
                                                           !.since = @ + 1]]]

NoRingQuery == [asked |-> FALSE]

\* no query, no chat
SideUnused ==
    /\ ringQuery = NoRingQuery
    /\ socket = NoSocket
    /\ server = NoServer

\* no mask effect beyond the mount, no conversation, no offline export
AppUnused ==
    /\ MaskUnused
    /\ ConversationUnused
    /\ OfflineUnused
    /\ CaptureUnused
    /\ EventLoopUnused
    /\ SideUnused

\* no export, no frame, no recording, and none of the above
CanvasUnused ==
    /\ SvgUnused
    /\ DotsUnused
    /\ RecordingUnused
    /\ AppUnused

(***************************************************************************)
(* Specification of the frequency-reactive managers (audio mode of         *)
(* drawHalftone)                                                           *)
(***************************************************************************)
FreqInit ==
    /\ dateNow \in {0, EpochTicks}
    /\ audioAnimationMode \in {"wave", "ripple"}
    /\ waves = <<>>
    /\ waveLastSpawn = NeverSpawned
    /\ ripples = <<>>
    /\ rippleLastSpawn = NeverSpawned
    /\ \E g \in Geometries :
          /\ waveCenter = g.center
          /\ waveMaxRadius = g.maxRadius
          /\ rippleCenter = g.center
          /\ rippleMaxRadius = g.maxRadius
    /\ calls = <<>>
    /\ LoopUnused
    /\ ColorUnused
    /\ CanvasUnused

\* time passes between two animation callbacks
AdvanceDateNow ==
    /\ dateNow < MaxDateNow
    /\ dateNow' = dateNow + 1
    /\ UNCHANGED <<canvasVars, audioAnimationMode, waves, waveLastSpawn, waveCenter, waveMaxRadius,
                   ripples, rippleLastSpawn, rippleCenter, rippleMaxRadius, calls, loopVars, colorVars>>

\* drawHalftone: both managers are handed the same centre and clip radius.  A frame is this
\* step followed, when audio is enabled, by the update of the manager(s) of the mode.
UpdateCenters ==
    /\ \E g \in Geometries :
          /\ WaveManagerUpdateCenter(g.center, g.maxRadius)
          /\ RippleManagerUpdateCenter(g.center, g.maxRadius)
    /\ UNCHANGED <<canvasVars, dateNow, audioAnimationMode, calls, loopVars, colorVars>>

\* drawHalftone: the wave manager is updated in the wave and combined modes
WaveUpdate ==
    /\ audioAnimationMode \in {"wave", "combined"}
    /\ \E in \in UpdateInputs : WaveManagerUpdate(in.audio, in.sensitivity, in.influence)
    /\ UNCHANGED <<canvasVars, dateNow, audioAnimationMode, ripples, rippleLastSpawn, rippleCenter,
                   rippleMaxRadius, calls, loopVars, colorVars>>

\* drawHalftone: the ripple manager is updated in the ripple and combined modes
RippleUpdate ==
    /\ audioAnimationMode \in {"ripple", "combined"}
    /\ \E in \in UpdateInputs : RippleManagerUpdate(in.audio, in.sensitivity, in.influence)
    /\ UNCHANGED <<canvasVars, dateNow, audioAnimationMode, waves, waveLastSpawn, waveCenter,
                   waveMaxRadius, calls, loopVars, colorVars>>

FreqNext ==
    \/ AdvanceDateNow
    \/ UpdateCenters
    \/ WaveUpdate
    \/ RippleUpdate

SpecFreq == FreqInit /\ [][FreqNext]_vars

(***************************************************************************)
(* Claims about the frequency-reactive managers                            *)
(***************************************************************************)
Ids(pool) == { pool[i].id : i \in 1..Len(pool) }

\* the entries of a pool that an update has just pushed: not yet advanced
Fresh(pool, f) == { i \in 1..Len(pool) : pool[i].frequency = f /\ pool[i].currentRadius = 0 }

WaveStep == WaveUpdate /\ waves' # waves
RippleStep == RippleUpdate /\ ripples' # ripples

\* an entry of the new pool is an entry of the old pool or was pushed by this update, and
\* then it is newer than every earlier emission of its band
WaveNoResurrection ==
    \A j \in 1..Len(waves') :
        \/ waves'[j].id \in Ids(waves)
        \/ /\ waves'[j].birthTime = dateNow
           /\ waves'[j].birthTime > waveLastSpawn[waves'[j].frequency]
           /\ \A i \in 1..Len(waves) : waves[i].birthTime <= waveLastSpawn[waves[i].frequency]

RippleNoResurrection ==
    \A j \in 1..Len(ripples') :
        \/ ripples'[j].id \in Ids(ripples)
        \/ /\ ripples'[j].birthTime = dateNow
           /\ ripples'[j].birthTime > rippleLastSpawn[ripples'[j].frequency]
           /\ \A i \in 1..Len(ripples) : ripples[i].birthTime <= rippleLastSpawn[ripples[i].frequency]

\* C1 (as stated): an update removes an emission exactly when, after this update's advance,
\* currentRadius >= maxRadius or the intensity / amplitude is below the floor (0.01 for
\* waves, 1 for ripples), and a removed emission never comes back.
C1_RemovedWhenBelowFloor ==
    [][ /\ WaveStep =>
            /\ \A i \in 1..Len(waves) :
                  LET a == WaveAdvance(waves[i]) IN
                  (a.id \notin Ids(waves')) <=>
                      (a.currentRadius >= a.maxRadius \/ a.intensity < Scale \div 100)
            /\ WaveNoResurrection
        /\ RippleStep =>
            /\ \A i \in 1..Len(ripples) :
                  LET a == RippleAdvance(ripples[i]) IN
                  (a.id \notin Ids(ripples')) <=>
                      (a.currentRadius >= a.maxRadius \/ a.amplitude < Scale)
            /\ RippleNoResurrection ]_vars

\* C1 (amended): an update removes an emission exactly when, after this update's advance,
\* currentRadius >= maxRadius or the intensity / amplitude is at or below the floor
\* (0.01 for waves, 1 for ripples); a removed emission never comes back: every entry of
\* the new pool was in the old pool or is pushed by this update with a new id.
C1_RemovedAtOrBelowFloor ==
    [][ /\ WaveStep =>
            /\ \A i \in 1..Len(waves) :
                  LET a == WaveAdvance(waves[i]) IN
                  (a.id \notin Ids(waves')) <=>
                      (a.currentRadius >= a.maxRadius \/ a.intensity <= Scale \div 100)
            /\ WaveNoResurrection
        /\ RippleStep =>
            /\ \A i \in 1..Len(ripples) :
                  LET a == RippleAdvance(ripples[i]) IN
                  (a.id \notin Ids(ripples')) <=>
                      (a.currentRadius >= a.maxRadius \/ a.amplitude <= Scale)
            /\ RippleNoResurrection ]_vars

\* C1 witness: a bass wave was spawned and has been removed while a later one is in the pool
C1_Witness ==
    /\ Len(waves) = 1
    /\ waves[1].frequency = "bass"
    /\ waves[1].birthTime > 5
    /\ waves[1].currentRadius > 0

\* C2: from one state to the next no emission's intensity / amplitude increases and no
\* emission's currentRadius decreases, whichever of update and updateCenter ran.
C2_Monotone ==
    [][ /\ \A i \in 1..Len(waves), j \in 1..Len(waves') :
              waves'[j].id = waves[i].id =>
                  /\ waves'[j].intensity <= waves[i].intensity
                  /\ waves'[j].currentRadius >= waves[i].currentRadius
        /\ \A i \in 1..Len(ripples), j \in 1..Len(ripples') :
              ripples'[j].id = ripples[i].id =>
                  /\ ripples'[j].amplitude <= ripples[i].amplitude
                  /\ ripples'[j].currentRadius >= ripples[i].currentRadius ]_vars

\* C2 witness: a bass ripple that two updates have advanced and decayed
C2_Witness ==
    \E i \in 1..Len(ripples) :
        /\ ripples[i].frequency = "bass"
        /\ ripples[i].currentRadius = 30
        /\ ripples[i].amplitude < LoudLevel * 35

C3_WaveCooldownMs == [bass |-> 200, mid |-> 100, treble |-> 50]
C3_RippleCooldownMs == [bass |-> 400, mid |-> 200, treble |-> 50]

ScenarioInputs ==
    { Input(Audio(LoudLevel, 0, 0), 1, Audio(1, 1, 1)),
      Input(Audio(LoudLevel, LoudLevel, LoudLevel), 1, Audio(1, 1, 1)) }

ScenarioInit ==
    /\ dateNow = 0
    /\ audioAnimationMode = "ripple"
    /\ waves = <<>>
    /\ waveLastSpawn = NeverSpawned
    /\ ripples = <<>>
    /\ rippleLastSpawn = NeverSpawned
    /\ \E g \in Geometries :
          /\ waveCenter = g.center
          /\ waveMaxRadius = g.maxRadius
          /\ rippleCenter = g.center
          /\ rippleMaxRadius = g.maxRadius
    /\ calls = <<>>
    /\ LoopUnused
    /\ ColorUnused
    /\ CanvasUnused

ScenarioAdvance ==
    /\ dateNow < MaxScenarioNow
    /\ dateNow' = dateNow + 1
    /\ UNCHANGED <<canvasVars, audioAnimationMode, waves, waveLastSpawn, waveCenter, waveMaxRadius,
                   ripples, rippleLastSpawn, rippleCenter, rippleMaxRadius, calls, loopVars, colorVars>>

\* one update call of the test, and what the test sees of it
ScenarioCall ==
    /\ Len(calls) < MaxCalls
    /\ \E in \in ScenarioInputs : RippleManagerUpdate(in.audio, in.sensitivity, in.influence)
    /\ calls' = Append(calls, [time |-> dateNow * TickMs,
                               bass |-> Cardinality(Fresh(ripples', "bass"))])
    /\ UNCHANGED <<canvasVars, dateNow, audioAnimationMode, waves, waveLastSpawn, waveCenter, waveMaxRadius,
                   loopVars, colorVars>>

ScenarioNext == ScenarioAdvance \/ ScenarioCall

SpecScenario == ScenarioInit /\ [][ScenarioNext]_vars

PulseInit ==
    /\ perfNow = 0
    /\ \E p \in PulseParams : loopPulse = NewLoopPulseManager(p.loopDuration, p.totalCycles, perfNow)
    /\ pulseReturned = "none"
    /\ pulseSince = {}
    /\ LoopRippleUnused
    /\ FreqUnused
    /\ ColorUnused
    /\ CanvasUnused

PulseAdvance ==
    /\ perfNow < MaxPulseNow
    /\ perfNow' = perfNow + 1
    /\ UNCHANGED <<canvasVars, colorVars, freqVars, calls, loopPulse, pulseReturned, pulseSince, loopRipple,
                   loopRippleChangedAt>>

PulseUpdateParams ==
    /\ \E p \in PulseParams :
          loopPulse' = LoopPulseUpdateParams(loopPulse, p.loopDuration, p.totalCycles)
    /\ pulseSince' = IF loopPulse' # loopPulse THEN pulseSince \cup {"updateParams"} ELSE pulseSince
    /\ UNCHANGED <<canvasVars, colorVars, freqVars, calls, perfNow, pulseReturned, loopRipple, loopRippleChangedAt>>

PulseReset ==
    /\ loopPulse' = LoopPulseReset(loopPulse, perfNow)
    /\ pulseSince' = {}
    /\ UNCHANGED <<canvasVars, colorVars, freqVars, calls, perfNow, pulseReturned, loopRipple, loopRippleChangedAt>>

PulseComplete ==
    /\ loopPulse' = LoopPulseComplete(loopPulse)
    /\ pulseSince' = pulseSince \cup {"complete"}
    /\ UNCHANGED <<canvasVars, colorVars, freqVars, calls, perfNow, pulseReturned, loopRipple, loopRippleChangedAt>>

PulseMultiplierQuery ==
    /\ loopPulse' = GetPulseMultiplier(loopPulse, perfNow)[1]
    /\ pulseReturned' = GetPulseMultiplier(loopPulse, perfNow)[2]
    /\ UNCHANGED <<canvasVars, colorVars, freqVars, calls, perfNow, pulseSince, loopRipple, loopRippleChangedAt>>

PulseSizeQuery ==
    /\ loopPulse' = GetPulseSizeModulation(loopPulse, perfNow)[1]
    /\ pulseReturned' = GetPulseSizeModulation(loopPulse, perfNow)[2]
    /\ UNCHANGED <<canvasVars, colorVars, freqVars, calls, perfNow, pulseSince, loopRipple, loopRippleChangedAt>>

PulseNext ==
    \/ PulseAdvance
    \/ PulseUpdateParams
    \/ PulseReset
    \/ PulseComplete
    \/ PulseMultiplierQuery
    \/ PulseSizeQuery

SpecPulse == PulseInit /\ [][PulseNext]_vars

(***************************************************************************)
(* Specification of a LoopRippleManager under any sequence of calls, the   *)
(* update calls at most MaxTickDelta ticks apart while it runs             *)
(***************************************************************************)
LoopRippleInit ==
    /\ perfNow = 0
    /\ \E g \in Geometries, p \in LoopRippleParams :
          loopRipple = NewLoopRippleManager(g.center, g.maxRadius, p.loopDuration,
                                            p.totalCycles, perfNow)
    /\ loopRippleChangedAt = -1
    /\ LoopPulseUnused
    /\ FreqUnused
    /\ ColorUnused
    /\ CanvasUnused

LoopRippleAdvanceClock ==
    /\ perfNow < MaxLoopRippleNow
    /\ loopRipple.isCompleted \/ perfNow - loopRipple.lastUpdateTime < MaxTickDelta
    /\ perfNow' = perfNow + 1
    /\ UNCHANGED <<canvasVars, colorVars, freqVars, calls, loopPulse, pulseReturned, pulseSince, loopRipple,
                   loopRippleChangedAt>>

LoopRippleCenter ==
    /\ \E g \in Geometries : loopRipple' = LoopRippleUpdateCenter(loopRipple, g.center, g.maxRadius)
    /\ UNCHANGED <<canvasVars, colorVars, freqVars, calls, perfNow, loopPulse, pulseReturned, pulseSince,
                   loopRippleChangedAt>>

LoopRippleSetParams ==
    /\ \E p \in LoopRippleParams :
          loopRipple' = LoopRippleUpdateParams(loopRipple, p.loopDuration, p.totalCycles,
                                               p.intensity, p.cyclePause)
    /\ loopRippleChangedAt' = IF loopRipple' # loopRipple THEN perfNow ELSE loopRippleChangedAt
    /\ UNCHANGED <<canvasVars, colorVars, freqVars, calls, perfNow, loopPulse, pulseReturned, pulseSince>>

LoopRippleRestart ==
    /\ loopRipple' = LoopRippleReset(loopRipple, perfNow)
    /\ UNCHANGED <<canvasVars, colorVars, freqVars, calls, perfNow, loopPulse, pulseReturned, pulseSince,
                   loopRippleChangedAt>>

LoopRippleTick ==
    /\ loopRipple' = LoopRippleUpdate(loopRipple, perfNow)
    /\ UNCHANGED <<canvasVars, colorVars, freqVars, calls, perfNow, loopPulse, pulseReturned, pulseSince,
                   loopRippleChangedAt>>

LoopRippleNext ==
    \/ LoopRippleAdvanceClock
    \/ LoopRippleCenter
    \/ LoopRippleSetParams
    \/ LoopRippleRestart
    \/ LoopRippleTick

SpecLoopRipple == LoopRippleInit /\ [][LoopRippleNext]_vars

(***************************************************************************)
(* Claims about the loop managers                                          *)
(***************************************************************************)
\* C5: with totalCycles > 0, isAnimationComplete() is true exactly when complete() was
\* called or the time since start has reached loopDuration * totalCycles, whatever
\* queries were or were not made before (loopDuration 1 s, 2 cycles: false at 1.9 s,
\* true from 2.0 s on).
C5_CompleteExactlyWhenElapsed ==
    (loopPulse.totalCycles > 0 /\ "updateParams" \notin pulseSince) =>
        ( IsAnimationComplete(loopPulse) <=>
              \/ "complete" \in pulseSince
              \/ perfNow - loopPulse.startTime >= loopPulse.loopDuration * loopPulse.totalCycles )

\* C6: with loopCycles = -1 a loop manager that is not completed does not become
\* completed by an update or a per-point query, at any time: only complete() ends it.
C6_UnboundedNeverCompletes ==
    [][ /\ ( /\ loopRipple.totalCycles = -1
             /\ ~loopRipple.isCompleted
             /\ LoopRippleTick ) => ~loopRipple'.isCompleted
        /\ ( /\ loopPulse.totalCycles = -1
             /\ ~loopPulse.isCompleted
             /\ PulseMultiplierQuery \/ PulseSizeQuery ) => ~loopPulse'.isCompleted ]_vars

\* what complete() and reset() do by themselves, and that the terminal state lasts
C7_CompleteAndReset ==
    /\ PulseComplete => IsAnimationComplete(loopPulse')
    /\ (IsAnimationComplete(loopPulse) /\ ~PulseReset) => IsAnimationComplete(loopPulse')
    /\ PulseReset =>
          /\ ~IsAnimationComplete(loopPulse')
          /\ loopPulse'.currentCycle = 0
          /\ loopPulse'.startTime = perfNow
          /\ loopPulse'.loopDuration = loopPulse.loopDuration
          /\ loopPulse'.totalCycles = loopPulse.totalCycles

\* C7 (as stated): complete() forces the terminal state at any time; from then on
\* isAnimationComplete() is true and every per-point query returns the neutral
\* multiplier 1, until reset(), which restarts the clock at the current time with
\* currentCycle 0 and the manager running.
C7_EveryQueryNeutral ==
    [][ /\ C7_CompleteAndReset
        /\ ( /\ IsAnimationComplete(loopPulse)
             /\ PulseMultiplierQuery \/ PulseSizeQuery ) => pulseReturned' = "1" ]_vars

\* C7 (amended): complete() forces the terminal state at any time; from then on
\* isAnimationComplete() is true, every getPulseMultiplier returns the neutral
\* multiplier 1 and every getPulseSizeModulation returns its minimal size 0.3, until
\* reset(), which restarts the clock at the current time with currentCycle 0 and the
\* manager running.
C7_MultiplierNeutralSizeMinimal ==
    [][ /\ C7_CompleteAndReset
        /\ (IsAnimationComplete(loopPulse) /\ PulseMultiplierQuery) => pulseReturned' = "1"
        /\ (IsAnimationComplete(loopPulse) /\ PulseSizeQuery) => pulseReturned' = "0.3" ]_vars

\* C7 witness: an unbounded pulse was queried while running, reset at a later time, and
\* complete() has ended it since
C7_Witness ==
    /\ loopPulse.totalCycles = -1
    /\ loopPulse.startTime > 0
    /\ perfNow > loopPulse.startTime
    /\ "complete" \in pulseSince
    /\ IsAnimationComplete(loopPulse)
    /\ pulseReturned = "1"

\* C8: the pool of a LoopRippleManager never holds more than one ripple.
C8_AtMostOneRipple == Len(loopRipple.ripples) <= 1

\* C8 witness: the ripple of the second cycle has replaced the ripple of the first
C8_Witness ==
    /\ Len(loopRipple.ripples) = 1
    /\ loopRipple.ripples[1].cycleIndex = 1
    /\ loopRipple.cyclePause = 0

\* the ripple was spawned in the spawn window of its cycle, the parameters are those it
\* was spawned with, and the time is loopDuration after the start of that cycle
C9_AtTravelTime(r) ==
    LET cycleStart == loopRipple.startTime
                        + r.cycleIndex * (loopRipple.loopDuration + loopRipple.cyclePause)
    IN  /\ r.maxRadius = loopRipple.maxRadius
        /\ r.radiusUnit = loopRipple.loopDuration
        /\ loopRippleChangedAt <= cycleStart
        /\ r.birthTime >= cycleStart
        /\ InSpawnWindow(r.birthTime - cycleStart)
        /\ perfNow = cycleStart + loopRipple.loopDuration

\* C9: a ripple spawned at the start of a cycle with speed maxRadius / loopDuration has,
\* loopDuration after the cycle start and with no parameter change, a currentRadius
\* within speed * (one tick's delta time) of the clip radius.
C9_ReachesClipRadius ==
    \A i \in 1..Len(loopRipple.ripples) :
        LET r == loopRipple.ripples[i] IN
        C9_AtTravelTime(r) =>
            /\ r.speed * loopRipple.loopDuration = loopRipple.maxRadius * r.radiusUnit
            /\ r.currentRadius - r.maxRadius * r.radiusUnit <= r.speed * MaxTickDelta
            /\ r.maxRadius * r.radiusUnit - r.currentRadius <= r.speed * MaxTickDelta

\* C9 witness: a ripple of the second cycle at its travel time, short of the clip radius
\* by less than one tick's travel
C9_Witness ==
    \E i \in 1..Len(loopRipple.ripples) :
        LET r == loopRipple.ripples[i] IN
        /\ C9_AtTravelTime(r)
        /\ r.cycleIndex = 1
        /\ r.currentRadius < r.maxRadius * r.radiusUnit
        /\ r.currentRadius > 0

(***************************************************************************)
(* Specification of the colour of the dots: handleMessageSent and its      *)
(* timers, the handlers that set a colour, re-renders and frames           *)
(***************************************************************************)
ColorInit ==
    /\ perfNow = 0
    /\ ColorUnused
    /\ CanvasUnused
    /\ LoopPulseUnused
    /\ LoopRippleUnused
    /\ FreqUnused

\* a timer of handleMessageSent is due now
TimerDue ==
    \/ flow = "rotating" /\ (perfNow - flowStart) * TickMs >= ROTATION_DURATION
    \/ flow = "rippling" /\ (perfNow - flowStart) * TickMs >= THINKING_ANIMATION_DURATION
    \/ flow = "ending"

ColorAdvance ==
    /\ perfNow < MaxColorNow
    /\ ~TimerDue
    /\ perfNow' = perfNow + 1
    /\ UNCHANGED <<canvasVars, colorVars, freqVars, calls, loopPulse, pulseReturned, pulseSince, loopRipple,
                   loopRippleChangedAt>>

\* handleMessageSent: setParams({dotColor: '#21F4DF', ..}), startColorTransition('#21F4DF', 500)
HandleMessageSent ==
    /\ flow = "idle"
    /\ perfNow <= MaxMessageAt
    /\ dotColor' = ThinkingColor
    /\ colorTransition' = NewTransition(dotColor, ThinkingColor, 500 \div TickMs, perfNow)
    /\ drawTransition' = colorTransition'
    /\ flow' = "rotating"
    /\ flowStart' = perfNow
    /\ resting' = NoColor
    /\ UNCHANGED <<canvasVars, currentColor, freqVars, calls, loopVars>>

\* the timer at ROTATION_DURATION: setParams without dotColor, startColorTransition('#21F4DF', 0)
RotationTimer ==
    /\ flow = "rotating"
    /\ (perfNow - flowStart) * TickMs >= ROTATION_DURATION
    /\ colorTransition' = NewTransition(dotColor, ThinkingColor, 0, perfNow)
    /\ drawTransition' = colorTransition'
    /\ flow' = "rippling"
    /\ resting' = NoColor
    /\ UNCHANGED <<canvasVars, dotColor, currentColor, flowStart, freqVars, calls, loopVars>>

\* the first timer at THINKING_ANIMATION_DURATION: setParams without dotColor
IdleTimer ==
    /\ flow = "rippling"
    /\ (perfNow - flowStart) * TickMs >= THINKING_ANIMATION_DURATION
    /\ drawTransition' = colorTransition
    /\ flow' = "ending"
    /\ UNCHANGED <<canvasVars, dotColor, colorTransition, currentColor, flowStart, resting, freqVars, calls,
                   loopVars>>

\* the second timer at THINKING_ANIMATION_DURATION: startColorTransition(originalDotColor, 500)
ColorTimer ==
    /\ flow = "ending"
    /\ colorTransition' = NewTransition(dotColor, originalDotColor, 500 \div TickMs, perfNow)
    /\ flow' = "idle"
    /\ resting' = NoColor
    /\ UNCHANGED <<canvasVars, dotColor, drawTransition, currentColor, flowStart, freqVars, calls, loopVars>>

\* the handlers that start listening or return to idle: startColorTransition(c, 500) and
\* setParams({dotColor: c, ..})
SetColorHandler ==
    /\ flow = "idle"
    /\ \E c \in {ListeningColor, originalDotColor} :
          /\ dotColor' = c
          /\ colorTransition' = NewTransition(dotColor, c, 500 \div TickMs, perfNow)
    /\ drawTransition' = colorTransition'
    /\ resting' = NoColor
    /\ UNCHANGED <<canvasVars, currentColor, flow, flowStart, freqVars, calls, loopVars>>

\* the audioData prop changes: the re-render makes a new drawHalftone closure
AudioDataChange ==
    /\ drawTransition' = colorTransition
    /\ UNCHANGED <<canvasVars, dotColor, colorTransition, currentColor, flow, flowStart, resting, freqVars,
                   calls, loopVars>>

\* one frame of drawHalftone: the colour of the dots
DrawFrame ==
    /\ currentColor' = FrameColor(drawTransition, dotColor, perfNow)
    /\ IF /\ drawTransition.isTransitioning
          /\ ~ProgressIsNaN(drawTransition, perfNow)
          /\ ProgressComplete(drawTransition, perfNow)
       THEN /\ colorTransition' = NoTransition
            /\ resting' = drawTransition.targetColor
       ELSE UNCHANGED <<colorTransition, resting>>
    /\ UNCHANGED <<canvasVars, dotColor, drawTransition, flow, flowStart, freqVars, calls, loopVars>>

ColorNext ==
    \/ ColorAdvance
    \/ HandleMessageSent
    \/ RotationTimer
    \/ IdleTimer
    \/ ColorTimer
    \/ SetColorHandler
    \/ AudioDataChange
    \/ DrawFrame

SpecColor == ColorInit /\ [][ColorNext]_vars

\* C10: when a frame finds a transition at progress >= 1 the transition is cleared and,
\* on that frame and on every later frame until another transition is started, the dots
\* are drawn in the transition's target colour.
C10_TargetIsRestingColour ==
    [][ DrawFrame =>
          /\ ( /\ drawTransition.isTransitioning
               /\ ~ProgressIsNaN(drawTransition, perfNow)
               /\ ProgressComplete(drawTransition, perfNow) )
                 => colorTransition' = NoTransition
          /\ resting' # NoColor => currentColor' = resting' ]_vars

\* C11: a transition started with duration 0 is an instant switch: the first frame after
\* startColorTransition(target, 0), at any elapsed time >= 0 including 0, assigns exactly
\* the target colour and clears the transition; no interpolated or invalid colour is drawn.
C11_DurationZeroIsInstant ==
    [][ ( /\ DrawFrame
          /\ drawTransition.isTransitioning
          /\ drawTransition.duration = 0 )
        => /\ currentColor' = drawTransition.targetColor
           /\ colorTransition' = NoTransition ]_vars

(***************************************************************************)
(* Specification of one optimized export: generateSVG(true)                *)
(*                                                                         *)
(* One action per synchronous stretch of the code.  The progress callback  *)
(* is code of the parent component: every call of it either returns or     *)
(* throws.  At most MaxFailures calls (of the callback, of martinez.union) *)
(* fail in one export.                                                     *)
(***************************************************************************)
\* may the next call of foreign code fail
Throws(s) == IF s.failures < MaxFailures THEN BOOLEAN ELSE {FALSE}

\* onOptimizationProgress?.(progress, status), returning or throwing
Called(s, progress, throws) ==
    [s EXCEPT !.lastProgress = progress,
              !.failures = IF throws THEN @ + 1 ELSE @]

\* 30 + (g / groupArray.length) * 60, rounded down; g is 1-based here
GroupProgress(s) == 30 + ((s.g - 1) * 60) \div Len(s.groupArray)

\* the template string and the return statement
ReturnDocument(s) ==
    [s EXCEPT !.document = <<RectElement>> \o s.circles,
              !.promise = "resolved",
              !.pc = "settled"]

\* the catch block followed by the finally block
CatchBlock(s, throws) ==
    LET c == Called(s, 100, throws)
    IN  IF throws
        THEN [c EXCEPT !.isOptimizing = FALSE, !.promise = "rejected", !.pc = "settled"]
        ELSE ReturnDocument(
                 [c EXCEPT !.isOptimizing = FALSE,
                           !.fallback = TRUE,
                           !.circles = @ \o [n \in 1..Len(s.circleData) |->
                                               CircleElement(s.circleData[n])]])

\* an exception inside processCircle: its own promise rejects, nobody listens, resolve is
\* never called and processGroups stays at its await
Hang(s) == [s EXCEPT !.pc = "hung"]

\* circles += <path ... />, then the next iteration of processGroups
PathResolved(s, d) ==
    [s EXCEPT !.circles = Append(@, PathElement(d)),
              !.unionPolygon = NoPolygon,
              !.g = @ + 1,
              !.pc = "groups"]

SvgInit ==
    /\ svg \in { NewExport(cd) : cd \in CircleSets }
    /\ DotsUnused
    /\ RecordingUnused
    /\ FreqUnused
    /\ calls = <<>>
    /\ LoopUnused
    /\ ColorUnused
    /\ AppUnused

\* generateSVG up to the first pair of the scan
GenerateSVGStart ==
    /\ svg.pc = "idle"
    /\ Len(svg.circleData) > 0
    /\ \E t0 \in Throws(svg) :
         LET s0 == Called([svg EXCEPT !.isOptimizing = TRUE], 0, t0)
         IN  IF t0
             THEN svg' = [s0 EXCEPT !.promise = "rejected", !.pc = "settled"]
             ELSE \E t10 \in Throws(s0) :
                    LET s1 == Called(s0, 10, t10)
                        size == Len(svg.circleData)
                    IN  IF t10
                        THEN \E tc \in Throws(s1) : svg' = CatchBlock(s1, tc)
                        ELSE svg' = [s1 EXCEPT !.uf = NewUnionFind(size),
                                               !.pc = IF size >= 2 THEN "scan" ELSE "scanned",
                                               !.i = IF size >= 2 THEN 1 ELSE size + 1,
                                               !.j = IF size >= 2 THEN 2 ELSE size + 2]

SvgStart ==
    /\ GenerateSVGStart
    /\ UNCHANGED <<freqVars, calls, loopVars, colorVars, dotVars, recording, appVars>>

\* one iteration of the inner loop of the scan
ScanPair ==
    /\ svg.pc = "scan"
    /\ LET size == Len(svg.circleData)
           next == NextPair(svg.i, svg.j, size)
       IN  svg' = [svg EXCEPT
                     !.uf = IF Overlap(svg.circleData[svg.i], svg.circleData[svg.j])
                            THEN UFUnion(@, svg.i, svg.j)
                            ELSE @,
                     !.i = next[1],
                     !.j = next[2],
                     !.pc = IF next[1] > size THEN "scanned" ELSE "scan"]

SvgScanPair ==
    /\ ScanPair
    /\ UNCHANGED <<freqVars, calls, loopVars, colorVars, dotVars, recording, appVars>>

\* step 2 up to the call of processGroups
ReadGroups ==
    /\ svg.pc = "scanned"
    /\ \E t30 \in Throws(svg) :
         LET s == Called(svg, 30, t30)
         IN  IF t30
             THEN \E tc \in Throws(s) : svg' = CatchBlock(s, tc)
             ELSE svg' = [s EXCEPT
                            !.groupArray = GetGroups(svg.uf),
                            !.uf.parent = [n \in DOMAIN @ |-> UFRoot(svg.uf.parent, n)],
                            !.g = 1,
                            !.pc = "groups"]

SvgGroups ==
    /\ ReadGroups
    /\ UNCHANGED <<freqVars, calls, loopVars, colorVars, dotVars, recording, appVars>>

\* one iteration of processGroups, up to its await or to its end
ProcessGroups ==
    /\ svg.pc = "groups"
    /\ svg.g <= Len(svg.groupArray)
    /\ LET indices == svg.groupArray[svg.g]
           first == svg.circleData[indices[1]]
       IN  IF IsMultiGroup(indices)
           THEN \E tg \in Throws(svg) :
                  LET s == Called(svg, GroupProgress(svg), tg)
                  IN  IF tg
                      THEN \E tc \in Throws(s) : svg' = CatchBlock(s, tc)
                      ELSE IF Len(indices) = 1
                      THEN svg' = PathResolved(s, TwoArcs(first))
                      ELSE \E te \in Throws(s) :
                             LET e == Called(s, GroupProgress(svg), te)
                             IN  IF te
                                 THEN \E tc \in Throws(e) : svg' = CatchBlock(e, tc)
                                 ELSE \E tp \in Throws(e) :
                                        LET p == Called(e, GroupProgress(svg), tp)
                                        IN  IF tp
                                            THEN svg' = Hang(p)
                                            ELSE svg' = [p EXCEPT
                                                           !.unionPolygon =
                                                               UnionStep(NoPolygon, indices[1], "ok"),
                                                           !.k = 2,
                                                           !.pc = "union"]
           ELSE svg' = [svg EXCEPT !.circles = Append(@, CircleElement(first)),
                                   !.g = @ + 1]

SvgProcessGroup ==
    /\ ProcessGroups
    /\ UNCHANGED <<freqVars, calls, loopVars, colorVars, dotVars, recording, appVars>>

\* processCircle(i) run by its timer, i >= 1
ProcessCircle ==
    /\ svg.pc = "union"
    /\ LET indices == svg.groupArray[svg.g]
           groupCircles == [n \in 1..Len(indices) |-> svg.circleData[indices[n]]]
       IN  \E tp \in Throws(svg) :
             LET p == Called(svg, GroupProgress(svg), tp)
             IN  IF tp
                 THEN svg' = Hang(p)
                 ELSE IF svg.k > Len(indices)
                 THEN IF svg.unionPolygon.null
                      THEN svg' = PathResolved(p, TwoArcs(Largest(groupCircles)))
                      ELSE IF svg.unionPolygon.malformed
                      THEN svg' = Hang(p)
                      ELSE svg' = PathResolved(p, PolygonPath(svg.unionPolygon.members))
                 ELSE \E outcome \in UnionOutcomes :
                        /\ outcome # "ok" => p.failures < MaxFailures
                        /\ svg' = [p EXCEPT
                                     !.unionPolygon = UnionStep(@, indices[svg.k], outcome),
                                     !.failures = IF outcome = "ok" THEN @ ELSE @ + 1,
                                     !.unionFailed = @ \/ outcome \in {"throws", "empty"},
                                     !.skipped = IF outcome \in {"throws", "empty"}
                                                 THEN @ \cup {indices[svg.k]} ELSE @,
                                     !.k = @ + 1]

SvgProcessCircle ==
    /\ ProcessCircle
    /\ UNCHANGED <<freqVars, calls, loopVars, colorVars, dotVars, recording, appVars>>

\* the end of the try block, the finally block and the return
FinishExport ==
    /\ svg.pc = "groups"
    /\ svg.g > Len(svg.groupArray)
    /\ \E t100 \in Throws(svg) :
         LET s == Called(svg, 100, t100)
         IN  IF t100
             THEN \E tc \in Throws(s) : svg' = CatchBlock(s, tc)
             ELSE svg' = ReturnDocument([s EXCEPT !.isOptimizing = FALSE])

SvgFinish ==
    /\ FinishExport
    /\ UNCHANGED <<freqVars, calls, loopVars, colorVars, dotVars, recording, appVars>>

SvgNext ==
    \/ SvgStart
    \/ SvgScanPair
    \/ SvgGroups
    \/ SvgProcessGroup
    \/ SvgProcessCircle
    \/ SvgFinish

SpecSvg == SvgInit /\ [][SvgNext]_vars

\* timers and promise continuations of an export that is not settled are always run
SpecSvgFair == SvgInit /\ [][SvgNext]_vars /\ WF_vars(SvgNext)

(***************************************************************************)
(* Claims about the vector optimizer                                       *)
(***************************************************************************)
\* the pair (a, b), a < b, was visited by the scan
PairScanned(a, b) == a < svg.i \/ (a = svg.i /\ b < svg.j)

\* the circles a and b are in one entry of groupArray
SameGroup(a, b) ==
    \E g \in 1..Len(svg.groupArray) :
        \E m, n \in 1..Len(svg.groupArray[g]) :
            svg.groupArray[g][m] = a /\ svg.groupArray[g][n] = b

\* C12: two circles whose centre distance is strictly less than the sum of their radii are
\* in the same Union-Find set from the moment the scan has visited the pair, and in the same
\* entry of groupArray once the groups are read; for every circle set of the model.
C12_OverlappingShareGroup ==
    \A a, b \in 1..Len(svg.circleData) :
        ( /\ svg.pc # "idle"
          /\ a < b
          /\ PairScanned(a, b)
          /\ Overlap(svg.circleData[a], svg.circleData[b]) )
        => /\ UFRoot(svg.uf.parent, a) = UFRoot(svg.uf.parent, b)
           /\ svg.groupArray # <<>> => SameGroup(a, b)

\* the scan is over, the groups are read, and three circles are in one group through two
\* overlapping pairs
C12_Witness ==
    /\ svg.pc = "groups"
    /\ \E a, b, c \in 1..Len(svg.circleData) :
         /\ a < b /\ b < c
         /\ Overlap(svg.circleData[a], svg.circleData[b])
         /\ Overlap(svg.circleData[b], svg.circleData[c])
         /\ SameGroup(a, c)

\* centre distance >= sum of the radii
Apart(c1, c2) ==
    Square(c1.x - c2.x) + Square(c1.y - c2.y) >= Square(c1.r + c2.r)

\* the circles reached from the set S through pairs that are not apart
RECURSIVE ChainFrom(_)
ChainFrom(S) ==
    LET more == { b \in 1..Len(svg.circleData) :
                    \E a \in S : ~Apart(svg.circleData[a], svg.circleData[b]) }
    IN  IF more \subseteq S THEN S ELSE ChainFrom(S \cup more)

\* the circle indices whose union an emitted element draws
Drawn(element) ==
    IF element.tag = "path" /\ element.d.kind = "polygon" THEN element.d.members ELSE {}

\* C13 as stated: two circles whose centre distance is >= the sum of their radii never
\* share a Union-Find root and never are part of the same output path.
C13_ApartNeverMerged ==
    \A a, b \in 1..Len(svg.circleData) :
        ( /\ svg.pc \notin {"idle", "scan"}
          /\ svg.uf.parent # <<>>
          /\ a # b
          /\ Apart(svg.circleData[a], svg.circleData[b]) )
        => /\ UFRoot(svg.uf.parent, a) # UFRoot(svg.uf.parent, b)
           /\ \A n \in 1..Len(svg.circles) : ~({a, b} \subseteq Drawn(svg.circles[n]))

\* C13 amended: two circles share a Union-Find root, a groupArray entry or an output path
\* only if a chain of circles leads from one to the other in which each consecutive pair
\* has a centre distance strictly less than the sum of its radii.
C13_MergedOnlyAlongChains ==
    \A a, b \in 1..Len(svg.circleData) :
        ( /\ svg.uf.parent # <<>>
          /\ \/ UFRoot(svg.uf.parent, a) = UFRoot(svg.uf.parent, b)
             \/ SameGroup(a, b)
             \/ \E n \in 1..Len(svg.circles) : {a, b} \subseteq Drawn(svg.circles[n]) )
        => b \in ChainFrom({a})

\* a path was emitted for a group that holds two circles apart from each other, next to a
\* pair of touching circles that stayed in different groups
C13_Witness ==
    /\ \E n \in 1..Len(svg.circles) :
         \E a, b \in Drawn(svg.circles[n]) : Apart(svg.circleData[a], svg.circleData[b])
    /\ \E a, b \in 1..Len(svg.circleData) :
         /\ Square(svg.circleData[a].x - svg.circleData[b].x)
              + Square(svg.circleData[a].y - svg.circleData[b].y)
              = Square(svg.circleData[a].r + svg.circleData[b].r)
         /\ ~SameGroup(a, b)

\* the groups processGroups has gone through that hold one circle only
SingletonsDone ==
    { g \in 1..Len(svg.groupArray) : g < svg.g /\ Len(svg.groupArray[g]) = 1 }

ShapesOf(c) ==
    { n \in 1..Len(svg.document) :
        \/ /\ svg.document[n].tag = "circle"
           /\ svg.document[n].cx = svg.circleData[c].x
           /\ svg.document[n].cy = svg.circleData[c].y
        \/ /\ svg.document[n].tag = "path"
           /\ \/ c \in Drawn(svg.document[n])
              \/ /\ svg.document[n].d.kind = "arcs"
                 /\ svg.document[n].d.cx = svg.circleData[c].x
                 /\ svg.document[n].d.cy = svg.circleData[c].y }

\* C15: the document an optimized export returns holds exactly one rect, no group is
\* missing (some element draws a circle of it) and no group or circle is emitted twice (no
\* circle is drawn by two elements), whether or not a union failed.  The count of elements
\* is left free, so that the unoptimized fallback of one <circle> per circle passes.
C15_OneShapePerGroup ==
    svg.promise = "resolved"
    => /\ Cardinality({ n \in 1..Len(svg.document) : svg.document[n].tag = "rect" }) = 1
       /\ \A g \in 1..Len(svg.groupArray) :
            \E m \in 1..Len(svg.groupArray[g]) : ShapesOf(svg.groupArray[g][m]) # {}
       /\ \A c \in 1..Len(svg.circleData) : Cardinality(ShapesOf(c)) <= 1

\* C16: every optimized export ends with the promise resolved with a document, 100 as the
\* last progress report and isOptimizing false, whatever failed inside the optimizer.
C16_ExportSettlesWithDocument ==
    <>[]( /\ svg.promise = "resolved"
          /\ svg.document # <<>>
          /\ svg.lastProgress = 100
          /\ ~svg.isOptimizing )

(***************************************************************************)
(* Specification of the dot grid: one frame of one renderer, grid point    *)
(* by grid point                                                           *)
(***************************************************************************)
DotsInit ==
    /\ field \in { [params |-> p, frame |-> fr] : p \in ParamSets, fr \in Frames }
    /\ cursor = <<0, 0>>
    /\ dot = NoDot
    /\ centreDot = NoDot
    /\ SvgUnused
    /\ RecordingUnused
    /\ FreqUnused
    /\ calls = <<>>
    /\ LoopUnused
    /\ ColorUnused
    /\ AppUnused

\* the loop body of `renderer` at the grid point of the cursor
GridStep(renderer, result) ==
    /\ field.frame.renderer = renderer
    /\ ~FrameDone
    /\ dot' = result
    /\ centreDot' = IF result.emitted /\ result.distance = 0 THEN result ELSE centreDot
    /\ cursor' = NextGridIndex(field.params, cursor)
    /\ UNCHANGED <<field, svg, recording, freqVars, calls, loopVars, colorVars, appVars>>

RasterDot ==
    GridStep("raster", RasterDotAt(field, GridPoint(field.params, cursor[1]),
                                   GridPoint(field.params, cursor[2])))

SvgDot ==
    GridStep("svg", SvgDotAt(field, GridPoint(field.params, cursor[1]),
                             GridPoint(field.params, cursor[2])))

OfflineDot ==
    GridStep("offline", OfflineDotAt(field, GridPoint(field.params, cursor[1]),
                                     GridPoint(field.params, cursor[2])))

DotsNext ==
    \/ RasterDot
    \/ SvgDot
    \/ OfflineDot

SpecDots == DotsInit /\ [][DotsNext]_vars

(***************************************************************************)
(* Claims about the dot grid                                               *)
(***************************************************************************)
\* C17: every dot a renderer emits lies inside the clip circle: the distance of its drawn
\* centre <<dotX, dotY>> from the centre of the field plus its radius is <= clipRadius, in
\* every animation mode.
C17_DrawnDotInsideClip ==
    dot.emitted
    => ~Clipped(field.params, DistanceFromCenter(field.params, dot.dotX, dot.dotY), dot.dotSize)

\* the frame of the scenario: gridDensity 36, no animation modifier, raster or SVG
ScenarioFrame ==
    /\ field.params = FieldParams(36)
    /\ field.frame.renderer \in {"raster", "svg"}
    /\ field.frame.mode = "static"

\* C18 as stated: in the scenario the grid holds a dot at the exact centre of the field, of
\* diameter 85, and a dot whose distance plus half its diameter exceeds 250 is not emitted.
C18_CentreDotOfDiameter85 ==
    /\ (ScenarioFrame /\ FrameDone)
       => /\ centreDot.emitted
          /\ centreDot.dotSize = 85 * PxScale
    /\ (ScenarioFrame /\ dot # NoDot /\ Clipped(field.params, dot.distance, dot.dotSize))
       => ~dot.emitted

\* C18 amended: calculateDotSize gives diameter 85 at distance 0, but in the scenario the
\* grid points are 8 + 16k px, none at the centre (300, 300): every dot has a distance > 0
\* and a diameter < 85, and a frame emits no centre dot.  A grid point is emitted exactly if
\* its distance plus half its diameter does not exceed 250, in the raster and in the SVG
\* output alike.  With gridDensity 15 (spacing 40) the grid does hold the centre and that
\* dot has diameter 85.
C18_NoCentreDotInScenario ==
    /\ CalculateDotSize(field.params, 0, MaxDistance(field.params)) = 85 * PxScale
    /\ (ScenarioFrame /\ dot # NoDot)
       => /\ dot.distance > 0
          /\ dot.dotSize < 85 * PxScale
          /\ dot.emitted <=> 2 * dot.distance + dot.dotSize <= 2 * 250 * PxScale
          /\ dot = SvgDotAt(field, dot.x, dot.y)
          /\ dot = RasterDotAt(field, dot.x, dot.y)
    /\ (ScenarioFrame /\ FrameDone) => centreDot = NoDot
    /\ ( /\ field.params = FieldParams(15)
         /\ field.frame.mode = "static"
         /\ FrameDone )
       => centreDot.emitted /\ centreDot.dotSize = 85 * PxScale

\* a frame of the scenario is over: no centre dot was emitted and the last grid point, in
\* the corner of the field, was clipped
C18_Witness ==
    /\ ScenarioFrame
    /\ FrameDone
    /\ centreDot = NoDot
    /\ dot # NoDot
    /\ ~dot.emitted
    /\ Clipped(field.params, dot.distance, dot.dotSize)

(***************************************************************************)
(* Specification of the live recording                                     *)
(*                                                                         *)
(* The caller starts a recording when no recorder is recording and no      *)
(* event of a stopped recorder is queued; params stay as they are while    *)
(* the recording runs.                                                     *)
(***************************************************************************)
RecordingInit ==
    /\ recording = NoRecording
    /\ SvgUnused
    /\ DotsUnused
    /\ FreqUnused
    /\ calls = <<>>
    /\ LoopUnused
    /\ ColorUnused
    /\ AppUnused

RecordingRest == <<svg, dotVars, freqVars, calls, loopVars, colorVars, appVars>>

\* window.startHalftoneRecording()
RecStart ==
    /\ recording.recorderState # "recording"
    /\ recording.queued = "none"
    /\ recording.starts < MaxRecordings
    /\ \E isRecording \in BOOLEAN, frameRate \in {10, 20}, loopDuration \in {1, 2},
          loopCycles \in {-1, 1, 2} :
         recording' = StartRecording(recording, isRecording, frameRate, loopDuration, loopCycles)
    /\ UNCHANGED RecordingRest

\* one requestAnimationFrame callback
RecAnimate ==
    /\ recording.starts > 0
    /\ recording.framesCaptured < MaxFrames
    /\ \E n \in 1..MaxTickDelta, shouldDraw \in BOOLEAN, elapsedOver \in BOOLEAN :
         recording' = Animate(recording, n * TickMs, shouldDraw, elapsedOver)
    /\ UNCHANGED RecordingRest

\* window.stopHalftoneRecording()
RecStop ==
    /\ recording.starts > 0
    /\ recording.stopCalls < MaxStopCalls
    /\ recording' = [StopRecording(recording) EXCEPT !.explicitStop = TRUE,
                                                     !.stopCalls = @ + 1]
    /\ UNCHANGED RecordingRest

\* a dataavailable event: of the 250 ms timeslice, or the one stop() has queued
RecDataAvailable ==
    /\ \/ recording.recorderState = "recording" /\ recording.encoded > 0
       \/ recording.queued = "dataavailable"
    /\ recording' = [OnDataAvailable(recording) EXCEPT
                       !.queued = IF @ = "dataavailable" THEN "stop" ELSE @]
    /\ UNCHANGED RecordingRest

\* the stop event of the recorder
RecStopEvent ==
    /\ recording.queued = "stop"
    /\ recording' = [OnStop(recording) EXCEPT !.queued = "none"]
    /\ UNCHANGED RecordingRest

RecordingNext ==
    \/ RecStart
    \/ RecAnimate
    \/ RecStop
    \/ RecDataAvailable
    \/ RecStopEvent

SpecRecording == RecordingInit /\ [][RecordingNext]_vars

\* animation frames keep coming and the recorder dispatches the events it has queued
SpecRecordingFair ==
    /\ RecordingInit
    /\ [][RecordingNext]_vars
    /\ WF_vars(RecAnimate)
    /\ WF_vars(RecDataAvailable)
    /\ WF_vars(RecStopEvent)

(***************************************************************************)
(* Claims about the live recording                                         *)
(***************************************************************************)
\* a frame is requested from the capture track only while the recording is active and the
\* recorder is recording
FramesOnlyWhileRecording ==
    [][ recording'.requested > recording.requested
        => /\ recording.isRecordingActive
           /\ recording.recorderState = "recording" ]_vars

MaskInit ==
    /\ mask \in { MaskEffect(NoMask, e, p) : e \in BOOLEAN, p \in MaskPaths }
    /\ ConversationUnused
    /\ OfflineUnused
    /\ CaptureUnused
    /\ EventLoopUnused
    /\ SideUnused
    /\ SvgUnused
    /\ DotsUnused
    /\ RecordingUnused
    /\ FreqUnused
    /\ calls = <<>>
    /\ LoopUnused
    /\ ColorUnused

MaskRest == <<conversation, offline, capture, eventLoop, sideVars, svg, dotVars, recording, freqVars, calls, loopVars, colorVars>>

\* the control panel changes maskEnabled or maskSvgPath: the effect runs again
MaskParamsChange ==
    /\ mask.requests > 0
    /\ mask.requests < MaxMaskRequests
    /\ \E e \in BOOLEAN, p \in MaskPaths :
         /\ <<e, p>> # <<mask.maskEnabled, mask.maskSvgPath>>
         /\ mask' = MaskEffect(mask, e, p)
    /\ UNCHANGED MaskRest

\* img.onload of a load in flight
MaskLoadResolves ==
    /\ \E load \in mask.loads : mask' = MaskLoaded(mask, load)
    /\ UNCHANGED MaskRest

\* the fetch or img.onerror of a load in flight
MaskLoadRejects ==
    /\ \E load \in mask.loads :
         \E text \in FailuresOf(load.path) : mask' = MaskFailed(mask, load, text)
    /\ UNCHANGED MaskRest

MaskNext ==
    \/ MaskParamsChange
    \/ MaskLoadResolves
    \/ MaskLoadRejects

SpecMask == MaskInit /\ [][MaskNext]_vars

\* C21: whatever the order in which loads settle, the mask in use is the image of the path
\* requested last once that load has succeeded, and none if the mask was disabled by the
\* last request, the last path had no image, or the last load failed.
C21_LastRequestWins ==
    /\ mask.latest \in {"off", "blank", "failed"} => MaskInUse(mask) = "null"
    /\ mask.latest = "loaded" => MaskInUse(mask) = mask.maskSvgPath

\* C22: a failing load clears the mask slot and reports a non-empty error string; the error
\* string shown is that of the path requested last, and every run of the effect (a new load
\* or the mask disabled) clears it.
C22_ErrorOfLatestPath ==
    /\ [][ \A load \in mask.loads : \A text \in FailuresOf(load.path) :
             mask' = MaskFailed(mask, load, text)
             => mask'.maskImage = "null" /\ mask'.maskLoadError.text # "null" ]_vars
    /\ [](mask.maskLoadError # NoMaskError
           => mask.latest = "failed" /\ mask.maskLoadError.path = mask.maskSvgPath)
    /\ [][ mask'.requests > mask.requests => mask'.maskLoadError = NoMaskError ]_vars

(***************************************************************************)
(* Specification of the conversation: the recognizers' events come from    *)
(* the browser at any time; timers fire when due, in setTimeout order      *)
(***************************************************************************)
ConversationInit ==
    /\ conversation = MountConversation(NoConversation)
    /\ MaskUnused
    /\ OfflineUnused
    /\ CaptureUnused
    /\ EventLoopUnused
    /\ SideUnused
    /\ SvgUnused
    /\ DotsUnused
    /\ RecordingUnused
    /\ FreqUnused
    /\ calls = <<>>
    /\ LoopUnused
    /\ ColorUnused

ConversationRest == <<mask, offline, capture, eventLoop, sideVars, svg, dotVars, recording, freqVars, calls, loopVars, colorVars>>

\* a step of the conversation to c, within the bounds
ConversationStep(c) ==
    /\ Len(c.timers) <= MaxTimers
    /\ Len(c.questions) <= MaxQuestionRecognizers
    /\ c.errors <= MaxRecognizerErrors
    /\ conversation' = c
    /\ UNCHANGED ConversationRest

\* the effect that copies animationState to animationStateRef
ConvRefEffect ==
    /\ conversation.animationStateRef # conversation.animationState
    /\ ConversationStep([conversation EXCEPT !.animationStateRef = conversation.animationState])

\* the timer due first fires
ConvTimer ==
    /\ DueTimers(conversation) # {}
    /\ LET n == FirstDue(conversation)
       IN  ConversationStep(TimerCallback([conversation EXCEPT !.timers = RemoveAt(@, n)],
                                         conversation.timers[n].kind))

\* time passes
ConvElapse ==
    /\ ~Urgent(conversation)
    /\ ConversationStep(Elapse(conversation))

\* the wake-word recognizer reports a transcript with 'hey tara'
ConvWakeWord ==
    /\ conversation.beat = 0
    /\ conversation.wake = "on"
    /\ ConversationStep(WakeWordResult(conversation))

\* the wake-word recognizer reports an error
ConvWakeError ==
    /\ conversation.beat = 0
    /\ conversation.wake = "on"
    /\ ConversationStep(WakeOnError(conversation))

\* the wake-word recognizer ends
ConvWakeEnd ==
    /\ conversation.beat = 0
    /\ conversation.wake \in {"on", "erroring"}
    /\ ConversationStep(WakeOnEnd(conversation))

\* a question recognizer reports a final transcript
ConvQuestionResult ==
    \E q \in 1..Len(conversation.questions) :
        /\ conversation.beat = 0
        /\ ~conversation.questions[q].erroring
        /\ ~conversation.questions[q].capturedQuestion
        /\ ConversationStep(QuestionOnResult(conversation, q))

\* a question recognizer reports an error
ConvQuestionError ==
    \E q \in 1..Len(conversation.questions) :
        /\ conversation.beat = 0
        /\ ~conversation.questions[q].erroring
        /\ ConversationStep(QuestionOnError(conversation, q))

\* a question recognizer ends
ConvQuestionEnd ==
    \E q \in 1..Len(conversation.questions) :
        /\ conversation.beat = 0
        /\ ConversationStep(QuestionOnEnd(conversation, q))

ConversationNext ==
    \/ ConvRefEffect
    \/ ConvTimer
    \/ ConvElapse
    \/ ConvWakeWord
    \/ ConvWakeError
    \/ ConvWakeEnd
    \/ ConvQuestionResult
    \/ ConvQuestionError
    \/ ConvQuestionEnd

SpecConversation == ConversationInit /\ [][ConversationNext]_vars

\* C23: in a conversation without recognizer errors, with no question recognizer left
\* running and the state copied to its ref, the state 'thinking' is left only for
\* 'responding'; while thinking, the animation
\* is the rotation for the first 4.0 s after the question was captured and the ripple for the
\* 0.5 s after that.
C23_ThinkingThenResponding ==
    /\ [][ /\ conversation.animationState = "thinking"
            /\ conversation.animationStateRef = "thinking"
            /\ conversation.errors = 0
            /\ conversation.questions = <<>>
            => conversation'.animationState \in {"thinking", "responding"} ]_vars
    /\ [](conversation.animationState = "thinking"
           => /\ conversation.thinkingElapsed * TickMs < ROTATION_DURATION
                 => conversation.phase = "rotation"
              /\ /\ conversation.thinkingElapsed * TickMs > ROTATION_DURATION
                 /\ conversation.thinkingElapsed * TickMs < ROTATION_DURATION + RIPPLE_DURATION
                 => conversation.phase = "ripple")

\* C24: once the state is copied to its ref, a transcript with 'hey tara' starts the
\* listening stage when the state is 'idle' and changes nothing in any other state; and the
\* state is never 'idle' for longer than the longest restart delay of the code without a
\* wake-word recognizer running.
C24_WakeWordOnlyFromIdle ==
    /\ conversation.wake = "on" /\ conversation.animationStateRef = conversation.animationState
       => IF conversation.animationState = "idle"
          THEN WakeWordResult(conversation).animationState = "listening"
          ELSE WakeWordResult(conversation) = conversation
    /\ conversation.deaf * TickMs <= MaxDeafMs

(***************************************************************************)
(* Specification of one run of the loop-ripple manager: constructed,       *)
(* given its parameters and reset at time 0, then updated once per frame,  *)
(* the frames up to MaxFrameGap ticks apart                                *)
(***************************************************************************)
\* params.loopDuration (0.2 s, 0.3 s), params.loopCycles, params.rippleCyclePause (0, 0.1 s)
LoopRunParams ==
    { [loopDuration |-> d, totalCycles |-> n, intensity |-> 1, cyclePause |-> c] :
          d \in {200 \div TickMs, 300 \div TickMs}, n \in {2, 3}, c \in {0, 100 \div TickMs} }

LoopRunInit ==
    /\ perfNow = 0
    /\ \E g \in Geometries, p \in LoopRunParams :
          loopRipple = LoopRippleReset(
                           LoopRippleUpdateParams(
                               NewLoopRippleManager(g.center, g.maxRadius, p.loopDuration,
                                                    p.totalCycles, 0),
                               p.loopDuration, p.totalCycles, p.intensity, p.cyclePause), 0)
    /\ loopRippleChangedAt = -1
    /\ LoopPulseUnused
    /\ FreqUnused
    /\ ColorUnused
    /\ CanvasUnused

\* time passes between two frames
LoopRunAdvanceClock ==
    /\ perfNow < MaxLoopRunNow
    /\ perfNow - loopRipple.lastUpdateTime < MaxFrameGap
    /\ perfNow' = perfNow + 1
    /\ UNCHANGED <<canvasVars, colorVars, freqVars, calls, loopPulse, pulseReturned, pulseSince, loopRipple,
                   loopRippleChangedAt>>

\* a frame: loopRippleManagerRef.current.update()
LoopRunFrame ==
    /\ loopRipple' = LoopRippleUpdate(loopRipple, perfNow)
    /\ UNCHANGED <<canvasVars, colorVars, freqVars, calls, perfNow, loopPulse, pulseReturned, pulseSince,
                   loopRippleChangedAt>>

LoopRunNext ==
    \/ LoopRunAdvanceClock
    \/ LoopRunFrame

SpecLoopRun == LoopRunInit /\ [][LoopRunNext]_vars

\* C25: after an update in the active part of cycle k (past its first 0.1 s, before the
\* pause) of a run not yet complete, the pool holds a ripple of cycle k; and every ripple
\* of the pool was spawned in the first 0.1 s of its cycle, so never during a pause and one
\* effective cycle after the start of the cycle before.
C25_RipplePerActiveCycle ==
    LET m == loopRipple
        effectiveCycleDuration == m.loopDuration + m.cyclePause
        totalElapsed == perfNow - m.startTime
        cycleElapsed == totalElapsed % effectiveCycleDuration
        newCycle == totalElapsed \div effectiveCycleDuration
    IN  /\ /\ ~m.isCompleted
           /\ m.lastUpdateTime = perfNow
           /\ totalElapsed < effectiveCycleDuration * m.totalCycles
           /\ ~InSpawnWindow(cycleElapsed)
           /\ cycleElapsed < m.loopDuration
           => \E n \in 1..Len(m.ripples) : m.ripples[n].cycleIndex = newCycle
        /\ \A n \in 1..Len(m.ripples) :
              LET born == m.ripples[n].birthTime - m.startTime
              IN  /\ born \div effectiveCycleDuration = m.ripples[n].cycleIndex
                  /\ InSpawnWindow(born % effectiveCycleDuration)
                  /\ born % effectiveCycleDuration < m.loopDuration

(***************************************************************************)
(* Specification of live capture with the cost of the draws: as the        *)
(* recording specification, the decision to draw taken from the duration   *)
(* measured at the last draw                                               *)
(***************************************************************************)
CaptureInit ==
    /\ recording = NoRecording
    /\ capture = NoCapture
    /\ EventLoopUnused
    /\ SideUnused
    /\ MaskUnused
    /\ ConversationUnused
    /\ OfflineUnused
    /\ SvgUnused
    /\ DotsUnused
    /\ FreqUnused
    /\ calls = <<>>
    /\ LoopUnused
    /\ ColorUnused

\* one requestAnimationFrame callback
CaptureAnimate ==
    /\ recording.starts > 0
    /\ recording.framesCaptured < MaxFrames
    /\ \E n \in 1..MaxTickDelta, drawCost \in DrawCosts, elapsedOver \in BOOLEAN :
         /\ recording' = Animate(recording, n * TickMs,
                                 ShouldDraw(capture.lastDrawDuration, recording.frameInterval),
                                 elapsedOver)
         /\ capture' = MeasuredAfter(capture, recording, n * TickMs, drawCost)
    /\ UNCHANGED <<mask, conversation, offline, eventLoop, sideVars, svg, dotVars, freqVars, calls,
                   loopVars, colorVars>>

CaptureNext ==
    \/ RecStart
    \/ CaptureAnimate
    \/ RecStop
    \/ RecDataAvailable
    \/ RecStopEvent

SpecCapture == CaptureInit /\ [][CaptureNext]_vars

\* C26: a call of animate whose frame is due reuses the frame on the canvas (calls no draw)
\* exactly when the duration measured at the last draw is over the frame budget, nine tenths
\* of the frame interval; drawn or reused, the call requests one frame from the capture
\* track, which reaches the recording encoder, and counts one captured frame.
C26_ReuseWhenOverBudget ==
    [][ capture'.tick # capture.tick /\ capture'.tick.kind \in {"drawn", "reused"}
        => /\ capture'.tick.kind = "reused"
              <=> capture.lastDrawDuration * 10 > recording.frameInterval * 9
           /\ capture'.tick.kind = "reused" => capture'.lastDrawDuration = capture.lastDrawDuration
           /\ capture'.tick.kind = "drawn" => capture'.lastDrawDuration \in DrawCosts
           /\ recording'.requested = recording.requested + 1
           /\ recording'.encoded = recording.encoded + 1
           /\ recording'.framesCaptured = recording.framesCaptured + 1 ]_vars

\* a frame was reused after a draw that took more than nine tenths of the frame interval
\* but less than the interval, and the frame was requested and counted
C26_Witness ==
    /\ capture.tick.kind = "reused"
    /\ capture.lastDrawDuration < recording.frameInterval
    /\ recording.requested = capture.tick.at + 1
    /\ recording.requested >= 2
    /\ recording.framesCaptured = recording.requested

(***************************************************************************)
(* Specification of an optimized export on the event loop: the steps of    *)
(* the export specification, each in the task that runs it.  A task runs   *)
(* to its end: a callback of another source (an animation frame, a timer)  *)
(* runs only while no task of the export is on the stack.  A timer         *)
(* callback is a task of its own; the continuation of an await on a        *)
(* promise that resolves runs as a microtask, in the task of the resolve.  *)
(***************************************************************************)
SvgLoopRest == <<freqVars, calls, loopVars, colorVars, dotVars, recording,
                 mask, conversation, offline, capture, sideVars>>

\* the event loop after a step of the export that was on the stack: the step armed the timer
\* of line 1568 and came to the await, or the export settled or hung, or it is still running
AfterStep(s) ==
    [eventLoop EXCEPT !.running = s.pc \notin {"union", "settled", "hung"},
                      !.timer = s.pc = "union"]

\* generateSVG is called (from an event handler, a task of its own)
LoopCall ==
    /\ ~eventLoop.running
    /\ GenerateSVGStart
    /\ eventLoop' = AfterStep(svg')
    /\ UNCHANGED SvgLoopRest

\* an iteration of the nested for loops of the scan: no await, no timer
LoopScanPair ==
    /\ eventLoop.running
    /\ ScanPair
    /\ eventLoop' = AfterStep(svg')
    /\ UNCHANGED SvgLoopRest

LoopReadGroups ==
    /\ eventLoop.running
    /\ ReadGroups
    /\ eventLoop' = AfterStep(svg')
    /\ UNCHANGED SvgLoopRest

\* an iteration of the for loop of processGroups: it goes on at once after a group of one
\* circle; for a larger group processCircle(0) runs in it, arms the timer, and the await of
\* calculateUnionPath ends the task
LoopProcessGroups ==
    /\ eventLoop.running
    /\ ProcessGroups
    /\ eventLoop' = AfterStep(svg')
    /\ UNCHANGED SvgLoopRest

\* the timer of processCircle fires: a task of its own; it arms the next timer, or resolves
\* the promise, and then processGroups goes on in the same task
LoopTimer ==
    /\ ~eventLoop.running
    /\ eventLoop.timer
    /\ ProcessCircle
    /\ eventLoop' = AfterStep(svg')
    /\ UNCHANGED SvgLoopRest

LoopFinish ==
    /\ eventLoop.running
    /\ FinishExport
    /\ eventLoop' = AfterStep(svg')
    /\ UNCHANGED SvgLoopRest

\* a callback of another source runs: an animation frame, a timer
LoopOtherCallback ==
    /\ ~eventLoop.running
    /\ eventLoop.others < MaxOtherCallbacks
    /\ eventLoop' = [eventLoop EXCEPT !.others = @ + 1]
    /\ UNCHANGED <<svg, SvgLoopRest>>

SvgLoopNext ==
    \/ LoopCall
    \/ LoopScanPair
    \/ LoopReadGroups
    \/ LoopProcessGroups
    \/ LoopTimer
    \/ LoopFinish
    \/ LoopOtherCallback

SpecSvgLoop == SvgInit /\ [][SvgLoopNext]_vars

\* the export has processed a pair of the scan, a group, or a circle of a group
UnitDone ==
    \/ svg.pc = "scan" /\ <<svg.i, svg.j>> # <<1, 2>>
    \/ svg.pc = "groups" /\ svg.g > 1
    \/ svg.pc = "union"

\* a pair of the scan, a group, or a circle of a group is to be processed next
UnitPending ==
    \/ svg.pc = "scan"
    \/ svg.pc = "groups" /\ svg.g <= Len(svg.groupArray)
    \/ svg.pc = "union" /\ svg.k <= Len(svg.groupArray[svg.g])

\* C27: the optimizer never runs as one uninterrupted pass: between the processing of any
\* two pairs of the overlap scan, of any two groups and of any two circles of a group the
\* export has yielded to the event loop, so that another callback can run there.
C27_YieldBetweenUnits ==
    UnitDone /\ UnitPending => ~eventLoop.running

(***************************************************************************)
(* Claims about failures inside the optimizer                              *)
(***************************************************************************)
\* the circles of group g that processCircle has taken
TakenOf(g) ==
    LET indices == svg.groupArray[g]
    IN  { indices[n] : n \in { m \in 1..Len(indices) :
                                  g < svg.g \/ (svg.pc \in {"union", "hung"} /\ m < svg.k) } }

\* the groups of more than one circle whose path processGroups has appended
UnionsDone ==
    { g \in 1..Len(svg.groupArray) :
        g < svg.g /\ g <= Len(svg.circles) /\ Len(svg.groupArray[g]) > 1 }

\* C28: a circle whose union threw or returned an empty result (svg.skipped) is the only
\* thing left out: while a group is unioned the accumulated polygon is the union of exactly
\* the circles taken so far that were not skipped, so a failing union left it unchanged and
\* the circles after it were still unioned; and a group that was gone through has exactly
\* one element, a path, that draws exactly its circles that were not skipped.
C28_FailedUnionSkipsOneCircle ==
    /\ svg.pc = "union"
       => /\ ~svg.unionPolygon.null
          /\ svg.unionPolygon.members = TakenOf(svg.g) \ svg.skipped
    /\ \A g \in UnionsDone :
         /\ svg.circles[g].tag = "path"
         /\ Drawn(svg.circles[g]) = TakenOf(g) \ svg.skipped
         /\ \A n \in 1..Len(svg.groupArray) :
              n # g /\ n <= Len(svg.circles) /\ n < svg.g
              => Drawn(svg.circles[n]) \cap TakenOf(g) = {}

\* an export returned its document; in a group of three or more circles the union with
\* the second circle failed and the third circle is in the group's path
C28_Witness ==
    /\ svg.promise = "resolved"
    /\ Len(svg.document) = 1 + Len(svg.groupArray)
    /\ \E g \in UnionsDone :
         /\ Len(svg.groupArray[g]) >= 3
         /\ svg.groupArray[g][2] \in svg.skipped
         /\ svg.groupArray[g][3] \in Drawn(svg.circles[g])

\* the document of an export without optimization: the background and one <circle> per
\* circle record, in the order of circleData
NaiveDocument(circleData) ==
    <<RectElement>> \o [n \in 1..Len(circleData) |-> CircleElement(circleData[n])]

\* C29: the document returned by an optimized export that failed as a whole (its catch
\* block ran the fallback loop) is the naive one: the background and exactly one <circle>
\* per circle record, nothing else, however many groups were emitted before the failure.
C29_FallbackIsNaive ==
    svg.promise = "resolved" /\ svg.fallback
    => svg.document = NaiveDocument(svg.circleData)

(***************************************************************************)
(* Specification of one offline export: startOfflineExport from its call   *)
(* to its end, await by await, and the events of its MediaRecorder         *)
(***************************************************************************)
\* params.frameRate (0: not set), params.loopDuration in tenths of a second, params.loopCycles
\* (-1: the endless loop of the live view)
OfflineFrameRates == {0, 3, 7}
OfflineLoopDurations == {5, 10}
OfflineLoopCycles == {-1, 1, 2}

OfflineInit ==
    /\ offline = NoOffline
    /\ MaskUnused
    /\ ConversationUnused
    /\ CaptureUnused
    /\ EventLoopUnused
    /\ SideUnused
    /\ SvgUnused
    /\ DotsUnused
    /\ RecordingUnused
    /\ FreqUnused
    /\ calls = <<>>
    /\ LoopUnused
    /\ ColorUnused

OfflineRest == <<mask, conversation, capture, eventLoop, sideVars, svg, dotVars, recording, freqVars,
                 calls, loopVars, colorVars>>

OfflineStart ==
    /\ offline.pc = "idle"
    /\ \E frameRate \in OfflineFrameRates, loopDuration \in OfflineLoopDurations,
          loopCycles \in OfflineLoopCycles, supported \in BOOLEAN :
         offline' = StartOfflineExport(offline, frameRate, loopDuration, loopCycles, supported)
    /\ UNCHANGED OfflineRest

OfflineFrameStep ==
    /\ offline.pc = "loop"
    /\ offline.i < offline.totalFrames
    /\ \E writes \in BOOLEAN : offline' = OfflineFrame(offline, writes)
    /\ UNCHANGED OfflineRest

OfflinePacingTimer ==
    /\ offline.pc = "sleep"
    /\ offline' = OfflinePaced(offline)
    /\ UNCHANGED OfflineRest

OfflineLoopEnds ==
    /\ offline.pc = "loop"
    /\ offline.i >= offline.totalFrames
    /\ offline' = OfflineClose(offline)
    /\ UNCHANGED OfflineRest

\* the generator's track has ended with the close of its writer: the recorder stops by itself
OfflineTrackEnded ==
    /\ offline.pc = "closing"
    /\ offline.rec = "recording"
    /\ offline' = RecorderStops(offline)
    /\ UNCHANGED OfflineRest

OfflineStopCall ==
    /\ offline.pc = "closing"
    /\ offline' = OfflineStop(offline)
    /\ UNCHANGED OfflineRest

OfflineRecData ==
    /\ offline.queued = "dataavailable"
    /\ offline' = OfflineDataAvailable(offline)
    /\ UNCHANGED OfflineRest

OfflineRecStop ==
    /\ offline.queued = "stop"
    /\ offline' = OfflineOnStop(offline)
    /\ UNCHANGED OfflineRest

OfflineFinish ==
    /\ offline.pc = "stopping"
    /\ offline.stopped
    /\ offline' = OfflineComplete(offline)
    /\ UNCHANGED OfflineRest

OfflineNext ==
    \/ OfflineStart
    \/ OfflineFrameStep
    \/ OfflinePacingTimer
    \/ OfflineLoopEnds
    \/ OfflineTrackEnded
    \/ OfflineStopCall
    \/ OfflineRecData
    \/ OfflineRecStop
    \/ OfflineFinish

\* timers fire, settled promises run their continuations, the recorder dispatches its events
SpecOffline == OfflineInit /\ [][OfflineNext]_vars /\ WF_vars(OfflineNext)

\* the frames the export is to write: none if the product is not positive
FramesToWrite == IF offline.totalFrames > 0 THEN offline.totalFrames ELSE 0

\* the position of an event in offline.events, 0 if it did not happen
EventAt(e) ==
    IF \E n \in 1..Len(offline.events) : offline.events[n] = e
    THEN CHOOSE n \in 1..Len(offline.events) : offline.events[n] = e
    ELSE 0

FramesInOrder ==
    /\ offline.pc \notin {"idle", "unsupported"}
       => offline.totalFrames = Round((IF offline.frameRate = 0 THEN 30 ELSE offline.frameRate)
                                        * offline.loopDuration * offline.loopCycles, 10)
    /\ Len(offline.written) <= FramesToWrite
    /\ \A n \in 1..Len(offline.written) :
         /\ offline.written[n].index = n - 1
         /\ offline.written[n].timestamp
              = (2 * (n - 1) * 1000000 + offline.fps) \div (2 * offline.fps)
         /\ n > 1 => offline.written[n - 1].timestamp < offline.written[n].timestamp

StoppedAfterLastFrame ==
    offline.rec = "inactive" \/ EventAt("rec.stop") > 0
    => Len(offline.written) = FramesToWrite

CompleteOnceAfterStop ==
    /\ offline.completions <= 1
    /\ Cardinality({ n \in 1..Len(offline.events) :
                       offline.events[n] = "onRecordingComplete" }) = offline.completions
    /\ offline.completions = 1
       => /\ EventAt("stop event") > 0
          /\ EventAt("stop event") < EventAt("onRecordingComplete")
          /\ EventAt("rec.stop") < EventAt("onRecordingComplete")
          /\ EventAt("progress 100") = EventAt("onRecordingComplete") + 1
          /\ EventAt("progress 100") = Len(offline.events)
          /\ offline.lastProgress = 100
          /\ Len(offline.written) = FramesToWrite

\* C30: an offline export hands round(fps x loopDuration x loopCycles) frames to the
\* encoder, in the order of their index i = 0, 1, ..., frame i with the timestamp
\* round(i / fps x 1e6) microseconds, strictly increasing; the recorder is stopped only
\* after the last frame was written; onRecordingComplete is called once, after the
\* recorder's stop event, and the progress report 100 follows it; an export whose writes
\* all succeed comes to that end.
C30_FramesInOrderThenComplete ==
    /\ [](FramesInOrder /\ StoppedAfterLastFrame /\ CompleteOnceAfterStop)
    /\ offline.pc = "loop" ~> offline.pc \in {"done", "rejected"}
    /\ [](offline.pc = "done" => offline.completions = 1)

\* an export at 7 frames per second wrote its 14 frames, the recorder stopped by itself at
\* the end of the track, before rec.stop() was called, and the export completed
C30_Witness ==
    /\ offline.pc = "done"
    /\ offline.fps = 7
    /\ Len(offline.written) = 14
    /\ offline.completions = 1
    /\ EventAt("stop event") < EventAt("rec.stop")

(***************************************************************************)
(* Specification of the pacing of an offline export: the export of the     *)
(* offline specification with the wall clock.  Rendering and writing a     *)
(* frame take time, a timer fires at or after its delay.                   *)
(***************************************************************************)
\* time units (thirds of a millisecond) from the start of an iteration to the call of
\* writable.write: a third of a millisecond, two thirds, and 50 ms (behind at 60 fps)
RenderCosts == {1, 2, 150}

\* time units by which a timer fires after its delay
TimerLateness == {0, 4}

\* <<params.frameRate, params.loopDuration in tenths of a second, params.loopCycles>>: three
\* frames at 3 fps, six frames at 60 fps
PacingRuns == {<<3, 10, 1>>, <<60, 1, 1>>}

PacingStart ==
    /\ offline.pc = "idle"
    /\ \E run \in PacingRuns :
         offline' = StartOfflineExport(offline, run[1], run[2], run[3], TRUE)
    /\ UNCHANGED OfflineRest

PacingFrame ==
    /\ offline.pc = "loop"
    /\ offline.i < offline.totalFrames
    /\ \E render \in RenderCosts :
         offline' = OfflineSleep(OfflineFrame([offline EXCEPT !.sinceStart = @ + render], TRUE))
    /\ UNCHANGED OfflineRest

PacingTimer ==
    /\ offline.pc = "sleep"
    /\ \E late \in TimerLateness :
         offline' = OfflinePaced([offline EXCEPT !.sinceStart = @ + offline.timerDelay + late])
    /\ UNCHANGED OfflineRest

PacingNext ==
    \/ PacingStart
    \/ PacingFrame
    \/ PacingTimer
    \/ OfflineLoopEnds
    \/ OfflineTrackEnded
    \/ OfflineStopCall
    \/ OfflineRecData
    \/ OfflineRecStop
    \/ OfflineFinish

SpecPacing == OfflineInit /\ [][PacingNext]_vars

\* C31: frame i, i >= 1, is not handed to the encoder before startedAt + i x (1000 / fps)
\* ms; and between two frames the export has yielded to the event loop once, also when it
\* is behind its deadline: while the pacing timer is pending frame i + 1 is not written.
C31_PacedInRealTime ==
    /\ \A n \in 2..Len(offline.written) :
         offline.written[n].at * offline.fps >= (n - 1) * 1000 * UnitsPerMs
    /\ offline.pc = "sleep" => Len(offline.written) = offline.i + 1
    /\ offline.pc = "loop" => Len(offline.written) = offline.i

(***************************************************************************)
(* Specification of an offline export with the live view running: the      *)
(* export of the offline specification, and drawHalftone called from       *)
(* animate whenever the export is at one of its awaits                     *)
(***************************************************************************)
\* one drawHalftone, in the preview or in a live recording with or without its buffer
LiveDraw ==
    /\ \E isRecording, useOffscreen, offscreenCtx \in BOOLEAN :
         /\ offscreenCtx => useOffscreen
         /\ offline' = [offline EXCEPT
                          !.drawnBy = Drew(@, "live",
                                           DrawHalftoneWrites(isRecording, useOffscreen,
                                                              offscreenCtx))]
    /\ UNCHANGED OfflineRest

SurfacesNext ==
    \/ OfflineStart
    \/ OfflineFrameStep
    \/ OfflinePacingTimer
    \/ OfflineLoopEnds
    \/ OfflineTrackEnded
    \/ OfflineStopCall
    \/ OfflineRecData
    \/ OfflineRecStop
    \/ OfflineFinish
    \/ LiveDraw

SpecSurfaces == OfflineInit /\ [][SurfacesNext]_vars

\* C32: the offline export and the live rendering never write the same drawing surface:
\* the export writes only its accumulation and sample canvases, never the canvas of the
\* component or the buffer of a live recording, and a live draw never writes the export's
\* canvases, whenever the draws happen while the export runs.
C32_NoSharedSurface ==
    /\ \A surface \in Surfaces : Cardinality(offline.drawnBy[surface]) <= 1
    /\ \A surface \in {"acc", "sam"} : "live" \notin offline.drawnBy[surface]
    /\ \A surface \in {"canvas", "offscreen"} : "export" \notin offline.drawnBy[surface]

\* the export is asleep between two frames, it has written its canvases, and live draws
\* have written the canvas and the recording buffer meanwhile
C32_Witness ==
    /\ offline.pc = "sleep"
    /\ Len(offline.written) >= 2
    /\ offline.drawnBy["acc"] = {"export"}
    /\ offline.drawnBy["sam"] = {"export"}
    /\ offline.drawnBy["canvas"] = {"live"}
    /\ offline.drawnBy["offscreen"] = {"live"}

(***************************************************************************)
(* Claims about the frequency-reactive managers, continued                 *)
(***************************************************************************)
\* C33: a step that changes the centre or the max radius of a WaveManager or RippleManager
\* (updateCenter) leaves the pool as it is, every emission with its currentRadius, speed,
\* intensity or amplitude, maxRadius and decayRate, and the spawn times too; and an emission
\* pushed by an update has its maxRadius from the manager's max radius of that moment.
C33_UpdateCenterKeepsEmissions ==
    /\ [][ waveCenter' # waveCenter \/ waveMaxRadius' # waveMaxRadius
           => waves' = waves /\ waveLastSpawn' = waveLastSpawn ]_vars
    /\ [][ rippleCenter' # rippleCenter \/ rippleMaxRadius' # rippleMaxRadius
           => ripples' = ripples /\ rippleLastSpawn' = rippleLastSpawn ]_vars
    /\ [][ \A f \in Bands :
             /\ \A i \in Fresh(waves', f) :
                  waves' # waves => waves'[i].maxRadius = waveMaxRadius * WaveReach(f)
             /\ \A i \in Fresh(ripples', f) :
                  ripples' # ripples => ripples'[i].maxRadius = rippleMaxRadius * RippleReach(f)
         ]_vars

\* a pool holds an emission that has travelled, spawned under another max radius than the
\* manager's present one, next to an emission spawned under the present one
C33_Witness ==
    \/ \E i, j \in 1..Len(waves) :
         /\ waves[i].currentRadius > 0
         /\ waves[i].maxRadius # waveMaxRadius * WaveReach(waves[i].frequency)
         /\ waves[j].maxRadius = waveMaxRadius * WaveReach(waves[j].frequency)
    \/ \E i, j \in 1..Len(ripples) :
         /\ ripples[i].currentRadius > 0
         /\ ripples[i].maxRadius # rippleMaxRadius * RippleReach(ripples[i].frequency)
         /\ ripples[j].maxRadius = rippleMaxRadius * RippleReach(ripples[j].frequency)

(***************************************************************************)
(* The ripple ring, live and offline                                       *)
(*                                                                         *)
(* Distances and radii are in px, times in ms, size modulations, the ring  *)
(* intensity and the Gaussian falloff in thousandths, the falloff          *)
(* sharpness in tenths.  Math.exp(-z^2) is read from a table in steps of   *)
(* a quarter of z^2; both renderers read the same table.                   *)
(***************************************************************************)
\* round(1000 * exp(-k / 4)) for k = 0 .. 27; less than 0.001 beyond
ExpTable ==
    << 1000, 779, 607, 472, 368, 287, 223, 174, 135, 105, 82, 64, 50, 39,
       30, 24, 18, 14, 11, 9, 7, 5, 4, 3, 2, 2, 2, 1 >>

\* Math.exp(-((distanceFromRipple / ringWidth * sharpness) ** 2))
GaussianFalloff(distanceFromRipple, ringWidth, sharpness) ==
    LET k == (4 * distanceFromRipple * distanceFromRipple * sharpness * sharpness)
                 \div (ringWidth * ringWidth * 100)
    IN  IF k < Len(ExpTable) THEN ExpTable[k + 1] ELSE 0

AbsDiff(a, b) == IF a < b THEN b - a ELSE a - b

Larger(a, b) == IF a < b THEN b ELSE a

\* Math.max(0.2, Math.min(3.0, sizeModulation))
ClampSize(sizeModulation) == Larger(200, Min(3000, sizeModulation))

\* the fade of the last 15% of the travel
EdgeFadeFactor(currentRadius, maxRadius) ==
    IF 100 * currentRadius > 85 * maxRadius
    THEN Larger(0, 1000 - (1000 * (100 * currentRadius - 85 * maxRadius)) \div (15 * maxRadius))
    ELSE 1000

\* the peak size one ripple of the pool gives a point, 1.0 off its ring
PeakSize(m, currentRadius, distanceFromCenter) ==
    LET distanceFromRipple == AbsDiff(distanceFromCenter, currentRadius)
        gaussianFalloff == GaussianFalloff(distanceFromRipple, m.ringWidth, m.falloffSharpness)
        intensityEffect == ((m.ringIntensity - 1000) * gaussianFalloff
                               * EdgeFadeFactor(currentRadius, m.maxRadius)) \div 1000000
    IN  IF distanceFromRipple < m.ringWidth THEN 1000 + intensityEffect ELSE 1000

RECURSIVE BestSizeModulation(_, _, _)
BestSizeModulation(m, radii, distanceFromCenter) ==
    IF radii = <<>>
    THEN 1000
    ELSE Larger(BestSizeModulation(m, Tail(radii), distanceFromCenter),
                PeakSize(m, Head(radii), distanceFromCenter))

\* LoopRippleManager.getRippleDisplacement: the sizeModulation of a point at
\* distanceFromCenter, the pool holding ripples of these radii
GetRippleDisplacement(m, radii, distanceFromCenter) ==
    IF radii = <<>>
    THEN 1000
    ELSE ClampSize(BestSizeModulation(m, radii, distanceFromCenter))

\* the radius of the ripple of a LoopRippleManager cycleElapsed ms after its spawn at the
\* start of the cycle: speed = maxRadius / loopDuration, advanced by every deltaTime
LiveRippleRadius(maxRadius, loopDuration, cycleElapsed) ==
    (maxRadius * cycleElapsed) \div loopDuration

\* renderAtTime: the ripple radius at time t
OfflineRippleRadius(width, height, loopDuration, t) ==
    LET maxTravelDistance == (Larger(width, height) * 15) \div 10
    IN  (maxTravelDistance * (t % loopDuration)) \div loopDuration

\* renderAtTime: sizeMod of a point at dist
OfflineSizeMod(ringWidth, ringIntensity, rippleRadius, dist) ==
    LET dFromRipple == AbsDiff(dist, rippleRadius)
        gaussianFalloff == GaussianFalloff(dFromRipple, ringWidth, 25)
        onRing == Larger(300, 300 + ((ringIntensity - 300) * gaussianFalloff) \div 1000)
    IN  ClampSize(IF dFromRipple < ringWidth THEN onRing ELSE 300)

\* the canvas (px), params.loopDuration (ms), params.rippleRingWidth
RingCanvas == 400

RingLoopDuration == 2000

RingWidth == 80

\* params.circularRadius, the times, the distances of the grid points from the centre,
\* params.rippleIntensity, params.rippleFalloffSharpness
RingClipRadii == {300, 600}

RingTimes == {0, 500, 1000, 2500}

RingDistances == {0, 75, 100, 150, 300}

RingIntensities == {1500, 2500}

RingSharpnesses == {25, 40}

NoAnswer == [radius |-> -1, sizeModulation |-> -1]

\* one point, one time and one set of parameters, asked of neither renderer yet
RingInit ==
    /\ FreqUnused /\ LoopUnused /\ ColorUnused /\ DotsUnused /\ RecordingUnused
    /\ SvgUnused /\ MaskUnused /\ ConversationUnused /\ OfflineUnused
    /\ CaptureUnused /\ EventLoopUnused
    /\ socket = NoSocket
    /\ server = NoServer
    /\ \E c \in RingClipRadii, t \in RingTimes, d \in RingDistances,
          i \in RingIntensities, sh \in RingSharpnesses :
         ringQuery = [ asked |-> TRUE, clipRadius |-> c, t |-> t, dist |-> d,
                       ringIntensity |-> i, falloffSharpness |-> sh,
                       live |-> NoAnswer, offline |-> NoAnswer ]

RingRest == <<freqVars, calls, loopVars, colorVars, dotVars, recording, svg,
              mask, conversation, offline, capture, eventLoop, socket, server>>

\* the live frame: the manager, built with the clip radius, has its ripple of this cycle
RingLive ==
    /\ ringQuery.asked
    /\ ringQuery.live = NoAnswer
    /\ LET q == ringQuery
           m == [ maxRadius |-> q.clipRadius, ringWidth |-> RingWidth,
                  ringIntensity |-> q.ringIntensity,
                  falloffSharpness |-> q.falloffSharpness ]
           radius == LiveRippleRadius(q.clipRadius, RingLoopDuration, q.t % RingLoopDuration)
       IN  ringQuery' = [q EXCEPT !.live =
               [ radius |-> radius,
                 sizeModulation |-> GetRippleDisplacement(m, <<radius>>, q.dist) ]]
    /\ UNCHANGED RingRest

\* the offline frame of the same time
RingOffline ==
    /\ ringQuery.asked
    /\ ringQuery.offline = NoAnswer
    /\ LET q == ringQuery
           radius == OfflineRippleRadius(RingCanvas, RingCanvas, RingLoopDuration, q.t)
       IN  ringQuery' = [q EXCEPT !.offline =
               [ radius |-> radius,
                 sizeModulation |-> OfflineSizeMod(RingWidth, q.ringIntensity, radius, q.dist) ]]
    /\ UNCHANGED RingRest

RingNext == RingLive \/ RingOffline

SpecRing == RingInit /\ [][RingNext]_vars

\* both renderers have answered
RingAnswered == ringQuery.asked /\ ringQuery.live # NoAnswer /\ ringQuery.offline # NoAnswer

(***************************************************************************)
(* C34                                                                     *)
(***************************************************************************)
\* C34: for the same ripple parameters, the same time within a cycle and the same grid
\* point, the size modulation of the offline renderer equals the sizeModulation of
\* getRippleDisplacement, and the ripple radius of the offline renderer equals the radius
\* of the live manager's ripple at that time.
C34_OfflineEqualsLive ==
    RingAnswered =>
        /\ ringQuery.offline.sizeModulation = ringQuery.live.sizeModulation
        /\ ringQuery.offline.radius = ringQuery.live.radius

(***************************************************************************)
(* C35                                                                     *)
(***************************************************************************)
\* the filter's condition holds of every wave of the pool
WavesWithinReach == \A i \in 1..Len(waves) : waves[i].currentRadius < waves[i].maxRadius

WavesAboveFloor == \A i \in 1..Len(waves) : waves[i].intensity > WaveFloor

RipplesWithinReach == \A i \in 1..Len(ripples) : ripples[i].currentRadius < ripples[i].maxRadius

RipplesAboveFloor == \A i \in 1..Len(ripples) : ripples[i].amplitude > RippleFloor

\* C35: after every update call of a WaveManager or RippleManager every emission of the
\* pool, those spawned by that update included, has currentRadius < maxRadius and an
\* intensity (amplitude) above the removal floor, 0.01 for waves and 1 for ripples.  The
\* pools change in update only, so this is a property of every state.
C35_PoolWithinLimits ==
    /\ WavesWithinReach
    /\ WavesAboveFloor
    /\ RipplesWithinReach
    /\ RipplesAboveFloor

(***************************************************************************)
(* C36                                                                     *)
(***************************************************************************)
\* getRippleDisplacement of the manager of the model for a point at distanceFromCenter, the
\* ring at its constructor values (ringWidth 80, ringIntensity 1.5, falloffSharpness 2.5)
LoopRippleSizeModulation(m, distanceFromCenter) ==
    GetRippleDisplacement(
        [ maxRadius |-> m.maxRadius, ringWidth |-> RingWidth,
          ringIntensity |-> 1500, falloffSharpness |-> 25 ],
        [i \in 1..Len(m.ripples) |-> m.ripples[i].currentRadius \div m.ripples[i].radiusUnit],
        distanceFromCenter)

\* C36: a LoopRippleManager in the completed state has an empty pool and answers every
\* per-point query with sizeModulation 1.0; an update() of a completed manager changes
\* nothing; and the manager leaves the completed state through reset() only.
C36_CompletedStaysCompleted ==
    /\ [](loopRipple.isCompleted =>
            /\ loopRipple.ripples = <<>>
            /\ \A d \in RingDistances : LoopRippleSizeModulation(loopRipple, d) = 1000)
    /\ [][loopRipple.isCompleted /\ LoopRippleTick => loopRipple' = loopRipple]_vars
    /\ [][loopRipple.isCompleted /\ ~loopRipple'.isCompleted
            => loopRipple' = LoopRippleReset(loopRipple, perfNow)]_vars

\* a completed manager, its parameters changed after the update that completed it, and
\* the clock further on than a running manager goes without an update
C36_Witness ==
    /\ loopRipple.isCompleted
    /\ loopRippleChangedAt > loopRipple.lastUpdateTime
    /\ perfNow > loopRipple.lastUpdateTime + MaxTickDelta

(***************************************************************************)
(* C37                                                                     *)
(***************************************************************************)
\* this step is a call of animate whose frame is due
DueTick == capture'.tick # capture.tick /\ capture'.tick.kind \in {"drawn", "reused"}

\* the state after the last due call of animate of a recording that has captured the
\* frames it expected
AfterLastDueTick ==
    /\ capture.tick.kind \in {"drawn", "reused"}
    /\ capture.tick.at = recording.requested - 1
    /\ recording.expectedFrames > 0
    /\ recording.framesCaptured = recording.expectedFrames

\* C37: a duplicated frame is followed, in the same recording, by a due call of animate
\* that draws, so the last due call of a recording is never a duplicate; and the first due
\* call of a later recording draws.
C37_DuplicationIsTransient ==
    /\ [](AfterLastDueTick => capture.tick.kind = "drawn")
    /\ [][DueTick /\ recording.starts >= 2 /\ capture'.tick.at = 0
            => capture'.tick.kind = "drawn"]_vars

(***************************************************************************)
(* C38                                                                     *)
(***************************************************************************)
\* the animation state in which the code schedules a timer of this kind: the question
\* recognizer's error handler runs while listening, handleMessageSent and
\* startThinkingAnimation set 'thinking', showResponse sets 'responding'
ScheduledIn(kind) ==
    CASE kind = "returnToIdle" -> "listening"
      [] kind \in {"ripple", "thinkingEnd", "showResponse"} -> "thinking"
      [] kind = "returnToListening" -> "responding"
      [] OTHER -> "any"

\* this step is the callback of a timer of this kind, and it changes the animation
TimerTakesEffect(kind) ==
    /\ DueTimers(conversation) # {}
    /\ conversation.timers[FirstDue(conversation)].kind = kind
    /\ ConvTimer
    /\ \/ conversation'.animationState # conversation.animationState
       \/ conversation'.phase # conversation.phase

\* C38: the 3 s return-to-idle timer of a question-recognition error, the thinking timers at
\* 4.0 s and 4.5 s, the show-response timer at 6.5 s and the 10 s return-to-listening timer
\* change the animation only while the conversation is in the state that scheduled them.
C38_TimersActInTheirPhase ==
    [][ \A kind \in {"returnToIdle", "ripple", "thinkingEnd", "showResponse",
                     "returnToListening"} :
          TimerTakesEffect(kind) => conversation.animationState = ScheduledIn(kind) ]_vars

(***************************************************************************)
(* Specification of the chat client: the events of the socket and the      *)
(* calls of popMessage and resetMessages in any order                      *)
(***************************************************************************)
MaxResponses == 3       \* chat-response events of a behaviour

SocketInit ==
    /\ FreqUnused /\ LoopUnused /\ ColorUnused /\ DotsUnused /\ RecordingUnused
    /\ SvgUnused /\ MaskUnused /\ ConversationUnused /\ OfflineUnused
    /\ CaptureUnused /\ EventLoopUnused
    /\ ringQuery = NoRingQuery
    /\ server = NoServer
    /\ socket = NoSocket

SocketRest == <<freqVars, calls, loopVars, colorVars, dotVars, recording, svg,
                mask, conversation, offline, capture, eventLoop, ringQuery, server>>

SocketConnect ==
    /\ socket' = OnConnect(socket)
    /\ UNCHANGED SocketRest

SocketChatResponse ==
    /\ socket.received < MaxResponses
    /\ \E tagged \in BOOLEAN :
         socket' = OnChatResponse(socket, [responseId |-> socket.received + 1,
                                           tagged |-> tagged])
    /\ UNCHANGED SocketRest

SocketConnectError ==
    /\ socket' = OnConnectionLost(socket, "connect_error", "Socket.IO connect_error")
    /\ UNCHANGED SocketRest

SocketError ==
    /\ socket' = OnConnectionLost(socket, "error", "Socket.IO error")
    /\ UNCHANGED SocketRest

SocketDisconnect ==
    /\ socket' = OnConnectionLost(socket, "disconnect", "null")
    /\ UNCHANGED SocketRest

SocketPopMessage ==
    /\ socket' = PopMessage(socket)
    /\ UNCHANGED SocketRest

SocketResetMessages ==
    /\ socket' = ResetMessages(socket)
    /\ UNCHANGED SocketRest

SocketNext ==
    \/ SocketConnect
    \/ SocketChatResponse
    \/ SocketConnectError
    \/ SocketError
    \/ SocketDisconnect
    \/ SocketPopMessage
    \/ SocketResetMessages

SpecSocket == SocketInit /\ [][SocketNext]_vars

\* a chat-response is appended behind the messages queued before it
AppendedInOrder ==
    socket'.last = "chat-response" /\ socket'.received = socket.received + 1
    => /\ Len(socket'.messages) = Len(socket.messages) + 1
       /\ SubSeq(socket'.messages, 1, Len(socket.messages)) = socket.messages
       /\ socket'.messages[Len(socket'.messages)].responseId = socket'.received

\* popMessage returns the oldest message and removes it, or undefined; no message twice
PopsOldestOnce ==
    socket'.last = "popMessage" /\ socket' # socket
    => IF socket.messages = <<>>
       THEN socket'.returned = 0 /\ socket'.messages = <<>>
       ELSE /\ socket'.returned = Head(socket.messages).responseId
            /\ socket'.messages = Tail(socket.messages)
            /\ socket'.returned \notin socket.handed

\* a message leaves the queue in popMessage or resetMessages only
LeavesByPopOrReset ==
    Len(socket'.messages) < Len(socket.messages)
    => socket'.last \in {"popMessage", "resetMessages"}

(***************************************************************************)
(* C39                                                                     *)
(***************************************************************************)
\* C39: the client message queue is FIFO and lossless: a chat-response is appended in
\* arrival order, popMessage removes and returns the oldest message (undefined when the
\* queue is empty) and hands out no message twice, and a message leaves the queue only
\* through popMessage or resetMessages, not through a connect, connect_error, error or
\* disconnect event.
C39_QueueFifoLossless ==
    /\ [][AppendedInOrder]_vars
    /\ [][PopsOldestOnce]_vars
    /\ [][LeavesByPopOrReset]_vars

(***************************************************************************)
(* Specification of the chat server: requests arrive on two sockets at any *)
(* time, an interval fires when it is due, and time does not stand still   *)
(* while an interval runs                                                  *)
(***************************************************************************)
MaxRequests == 2        \* chat-request events of a behaviour

ServerSockets == {1, 2}

Text(words) == [type |-> "string", words |-> words]

NoText == [type |-> "undefined", words |-> <<>>]

\* the text field of a payload: matched by a list, by no list, blank, not a string, missing
ChatTexts ==
    { Text(<<"Hello">>), Text(<<"good", "BYE">>), Text(<<"what">>), Text(<<" ", " ">>),
      [type |-> "number", words |-> <<>>], NoText }

\* the payloads: objects, strings that parse to an object, a string that does not parse
Payloads ==
    { [form |-> "object", valid |-> TRUE, text |-> t] : t \in ChatTexts }
      \cup { [form |-> "string", valid |-> TRUE, text |-> t] : t \in {Text(<<"Hello">>), NoText} }
      \cup { [form |-> "string", valid |-> FALSE, text |-> NoText] }

ServerInit ==
    /\ FreqUnused /\ LoopUnused /\ ColorUnused /\ DotsUnused /\ RecordingUnused
    /\ SvgUnused /\ MaskUnused /\ ConversationUnused /\ OfflineUnused
    /\ CaptureUnused /\ EventLoopUnused
    /\ ringQuery = NoRingQuery
    /\ socket = NoSocket
    /\ server = NoServer

ServerRest == <<freqVars, calls, loopVars, colorVars, dotVars, recording, svg,
                mask, conversation, offline, capture, eventLoop, ringQuery, socket>>

DueIntervals == { n \in 1..Len(server.timers) : server.timers[n].remaining = 0 }

\* a chat-request arrives; the client gives every request an id of its own
ServerChatRequest ==
    /\ Len(server.requests) < MaxRequests
    /\ \E socketId \in ServerSockets, data \in Payloads :
         server' = OnChatRequest(server, socketId, Len(server.requests) + 1, data)
    /\ UNCHANGED ServerRest

\* the interval due first fires
ServerTimer ==
    /\ DueIntervals # {}
    /\ LET n == CHOOSE n \in DueIntervals : \A m \in DueIntervals : n <= m
       IN  server' = IntervalCallback(server, n)
    /\ UNCHANGED ServerRest

\* time passes
ServerElapse ==
    /\ server.timers # <<>>
    /\ DueIntervals = {}
    /\ server' = ServerElapsed(server)
    /\ UNCHANGED ServerRest

ServerNext ==
    \/ ServerChatRequest
    \/ ServerTimer
    \/ ServerElapse

SpecServer ==
    ServerInit /\ [][ServerNext]_vars /\ WF_vars(ServerTimer) /\ WF_vars(ServerElapse)

\* the emissions that carry this responseId, in order
RECURSIVE EmittedFor(_, _)
EmittedFor(log, requestId) ==
    IF log = <<>>
    THEN <<>>
    ELSE IF Head(log).responseId = requestId
         THEN <<Head(log)>> \o EmittedFor(Tail(log), requestId)
         ELSE EmittedFor(Tail(log), requestId)

\* what the request is to be answered with: the start event, the list, the end event
ExpectedEmissions(r) ==
    LET responses == MatchedResponses(Parsed(r.data).text.words)
    IN  <<[name |-> "chat-event", body |-> "CHAT_START_EVENT"]>>
          \o [k \in 1..Len(responses) |-> [name |-> "chat-response", body |-> responses[k]]]
          \o <<[name |-> "chat-event", body |-> "CHAT_END_EVENT"]>>

IntervalsOf(requestId) ==
    { n \in 1..Len(server.timers) : server.timers[n].requestId = requestId }

\* the request has its whole answer
Answered(r) ==
    Len(EmittedFor(server.emitted, r.requestId)) = Len(ExpectedEmissions(r))

\* what was emitted for the request so far is the beginning of its answer, on its socket,
\* one second apart, and its interval runs until the end event
AnsweredInOrder(r) ==
    LET log == EmittedFor(server.emitted, r.requestId)
        expected == ExpectedEmissions(r)
    IN  /\ Len(log) >= 1
        /\ Len(log) <= Len(expected)
        /\ \A k \in 1..Len(log) :
              /\ log[k].name = expected[k].name
              /\ log[k].body = expected[k].body
              /\ log[k].socket = r.socket
              /\ k > 1 => log[k].gap * ServerTickMs = ResponseIntervalMs
        /\ IF Answered(r)
           THEN IntervalsOf(r.requestId) = {}
           ELSE Cardinality(IntervalsOf(r.requestId)) = 1

\* nothing was emitted for the request and no interval runs for it
Unanswered(r) ==
    /\ EmittedFor(server.emitted, r.requestId) = <<>>
    /\ IntervalsOf(r.requestId) = {}

====
